---- MODULE Spec2Model ----
(***************************************************************************)
(* Goal-based planning engine of Planora (backend/app.py).                 *)
(*                                                                         *)
(* Numbers.  Scores and allocation percentages are Python floats; here     *)
(* they are fixed-point integers counting hundredths of a percentage       *)
(* point (65.0 is 6500), and the model outputs are drawn from grids of     *)
(* whole points, so that every product with a one-decimal multiplier is    *)
(* exact.  Confidences are fractions counted in 1/10000 (0.9 is 9000), so  *)
(* that score / 100 is the same integer as the score.  The sums of the     *)
(* allocation percentages are float additions: each result is rounded to   *)
(* the nearest number of Precision significant bits, ties to even.  Whole  *)
(* points are exact under it; an answer that is not a whole point shows    *)
(* the rounding.                                                           *)
(*                                                                         *)
(* Text.  A Python str is a sequence of one-character strings.             *)
(***************************************************************************)
EXTENDS Integers, Sequences, FiniteSets, TLC

Pt(x) == 100 * x

\* Python's None, and a value that is not None
None == <<>>

Some(x) == <<x>>

Max2(a, b) == IF a >= b THEN a ELSE b

Min2(a, b) == IF a <= b THEN a ELSE b

\* ---------------------------------------------------------------------
\* Bounds of the model
\* ---------------------------------------------------------------------

\* the feasibility and priority regressors answer 45 * i - 15 points,
\* i in 0..MaxScoreIdx: below 0, inside 0..100, above 100
MaxScoreIdx == 3

\* the allocation regressors answer 30 * i points, i in 0..MaxAllocIdx:
\* below the [5,50] band, inside it, above it
MaxAllocIdx == 2

\* the timeline classifier answers a code in 0..MaxTimelineCode; 3 is a
\* code the timeline_map does not know
MaxTimelineCode == 3

\* number of characters of the long goal texts of the request forms
LongDetail == 101

MidDetail == 51

\* the risk classifier answers a probability of 5 + 30 * i hundredths, at
\* most 1, i in 0..MaxRiskIdx: below 0.3, inside 0.3..0.7, above 0.7
MaxRiskIdx == 3

\* the financial health classifier and the clustering model answer a code
\* in 0..MaxClassCode; 3 is a code the mappings do not know
MaxClassCode == 3

\* a float keeps Precision significant bits, counted in hundredths of a
\* point: the numbers up to 81.92 are exact to the hundredth, the numbers
\* up to 163.84 to two hundredths
Precision == 13

ScoreOutputs == {Pt(45 * i - 15) : i \in 0..MaxScoreIdx}

AllocOutputs == {Pt(30 * i) : i \in 0..MaxAllocIdx}

\* an allocation answer that is not a whole point
FineAllocOutputs == {Pt(50) - 1}

TimelineOutputs == 0..MaxTimelineCode

\* ---------------------------------------------------------------------
\* Python dict and str helpers
\* ---------------------------------------------------------------------

EmptyDict == [k \in {} |-> 0]

\* d.get(k, default)
Get(d, k, default) == IF k \in DOMAIN d THEN d[k] ELSE default

\* d[k] = v
Put(d, k, v) == [x \in (DOMAIN d) \cup {k} |-> IF x = k THEN v ELSE d[x]]

UpperCase == <<"A", "B", "C", "D", "E", "F", "G", "H", "I", "J", "K", "L", "M", "N", "O", "P", "Q", "R", "S", "T", "U", "V", "W", "X", "Y", "Z">>

LowerCase == <<"a", "b", "c", "d", "e", "f", "g", "h", "i", "j", "k", "l", "m", "n", "o", "p", "q", "r", "s", "t", "u", "v", "w", "x", "y", "z">>

\* the lower-case letter of each upper-case letter
ToLower ==
    [c \in {UpperCase[i] : i \in 1..Len(UpperCase)} |->
        LowerCase[CHOOSE i \in 1..Len(UpperCase) : UpperCase[i] = c]]

\* str.lower()
LowerChar(c) == IF c \in DOMAIN ToLower THEN ToLower[c] ELSE c

Lower(s) == [i \in 1..Len(s) |-> LowerChar(s[i])]

\* needle in hay
Contains(hay, needle) ==
    \E i \in 1..(Len(hay) - Len(needle) + 1) :
        \A j \in 1..Len(needle) : hay[i + j - 1] = needle[j]

Whitespace == {" ", "\t", "\n"}

\* str.strip()
Strip(s) ==
    LET keep == {i \in 1..Len(s) : s[i] \notin Whitespace}
    IN  IF keep = {} THEN <<>>
        ELSE SubSeq(s, CHOOSE i \in keep : \A j \in keep : i <= j,
                       CHOOSE i \in keep : \A j \in keep : i >= j)

\* str.split(',')
RECURSIVE Split(_)
Split(s) ==
    LET commas == {i \in 1..Len(s) : s[i] = ","}
    IN  IF commas = {} THEN <<s>>
        ELSE LET first == CHOOSE i \in commas : \A j \in commas : i <= j
             IN  <<SubSeq(s, 1, first - 1)>> \o Split(SubSeq(s, first + 1, Len(s)))

\* sep.join(parts)
RECURSIVE Join(_, _)
Join(sep, parts) ==
    IF parts = <<>> THEN <<>>
    ELSE IF Len(parts) = 1 THEN parts[1]
    ELSE parts[1] \o sep \o Join(sep, Tail(parts))

RECURSIVE Repeat(_, _)
Repeat(c, n) == IF n = 0 THEN <<>> ELSE <<c>> \o Repeat(c, n - 1)

RECURSIVE SumSeq(_)
SumSeq(s) == IF s = <<>> THEN 0 ELSE Head(s) + SumSeq(Tail(s))

\* ---------------------------------------------------------------------
\* Python float arithmetic
\* ---------------------------------------------------------------------

Abs(x) == IF x >= 0 THEN x ELSE -x

RECURSIVE Pow2(_)
Pow2(n) == IF n = 0 THEN 1 ELSE 2 * Pow2(n - 1)

\* the spacing of the floats around x, a power of two that is at least u
RECURSIVE Spacing(_, _)
Spacing(x, u) == IF Abs(x) < Pow2(Precision) * u THEN u ELSE Spacing(x, 2 * u)

\* the float nearest to x, the one with the even significand on a tie
Round(x) ==
    LET u == Spacing(x, 1)
        lo == (x \div u) * u
        hi == lo + u
    IN  IF x = lo THEN x
        ELSE IF x - lo < hi - x THEN lo
        ELSE IF x - lo > hi - x THEN hi
        ELSE IF (lo \div u) % 2 = 0 THEN lo ELSE hi

\* a + b and a - b on floats
FloatAdd(a, b) == Round(a + b)

FloatSub(a, b) == Round(a - b)

\* sum(s): the elements are added from left to right
RECURSIVE FloatSum(_)
FloatSum(s) ==
    IF s = <<>> THEN 0
    ELSE FloatAdd(FloatSum(SubSeq(s, 1, Len(s) - 1)), s[Len(s)])

\* ---------------------------------------------------------------------
\* Goal categories
\* ---------------------------------------------------------------------

\* the key order of the goals dict literal; dicts keep insertion order
CategoryOrder == <<"shortTerm", "mediumTerm", "longTerm", "retirement", "houseCar", "childrenEducation", "business", "travelLifestyle">>

Categories == {CategoryOrder[i] : i \in 1..Len(CategoryOrder)}

\* the request field each category is read from
FieldOf ==
    [shortTerm |-> "shortTermGoals", mediumTerm |-> "mediumTermGoals",
     longTerm |-> "longTermGoals", retirement |-> "retirementPlan",
     houseCar |-> "houseCarPurchase",
     childrenEducation |-> "childrenEducationWedding",
     business |-> "startBusiness", travelLifestyle |-> "travelLifestyleGoals"]

\* the characters of each category name, as str(goals) and the timeline
\* tags print them
CategoryChars ==
    [shortTerm |-> <<"s", "h", "o", "r", "t", "T", "e", "r", "m">>,
     mediumTerm |-> <<"m", "e", "d", "i", "u", "m", "T", "e", "r", "m">>,
     longTerm |-> <<"l", "o", "n", "g", "T", "e", "r", "m">>,
     retirement |-> <<"r", "e", "t", "i", "r", "e", "m", "e", "n", "t">>,
     houseCar |-> <<"h", "o", "u", "s", "e", "C", "a", "r">>,
     childrenEducation |-> <<"c", "h", "i", "l", "d", "r", "e", "n", "E", "d", "u", "c", "a", "t", "i", "o", "n">>,
     business |-> <<"b", "u", "s", "i", "n", "e", "s", "s">>,
     travelLifestyle |-> <<"t", "r", "a", "v", "e", "l", "L", "i", "f", "e", "s", "t", "y", "l", "e">>]

\* the categories of a goals dict in iteration order
KeysOf(goals) == SelectSeq(CategoryOrder, LAMBDA c : c \in DOMAIN goals)

\* faulty variant: the goals are kept as typed, not stripped
ParseGoals_without_strip(text) ==
    SelectSeq(Split(text), LAMBDA g : Strip(g) # <<>>)

\* [g.strip() for g in text.split(',') if g.strip()]
ParseGoals(text) ==
    LET parts == Split(text)
        stripped == [i \in 1..Len(parts) |-> Strip(parts[i])]
    IN  SelectSeq(stripped, LAMBDA g : g # <<>>)

\* the goals dict of analyze_goal_data, empty categories filtered out
ExtractGoals(data) ==
    LET all == [c \in Categories |-> ParseGoals(data[FieldOf[c]])]
    IN  [c \in {k \in Categories : all[k] # <<>>} |-> all[c]]

\* create_user_profile_for_ml: data.get(field, default) for every numerical
\* and categorical field, and the joined short and long term goals
create_user_profile_for_ml(data, goals) ==
    [age |-> Get(data, "age", 30),
     monthly_income |-> Get(data, "monthly_income", 50000),
     expenses |-> Get(data, "expenses", 30000),
     savings |-> Get(data, "savings", 10000),
     emergency_fund |-> Get(data, "emergency_fund", 50000),
     debt_amount |-> Get(data, "debt_amount", 0),
     monthly_emi |-> Get(data, "monthly_emi", 0),
     has_loans |-> Get(data, "has_loans", FALSE),
     invests |-> Get(data, "invests", FALSE),
     occupation |-> Get(data, "occupation", "Salaried"),
     investment_type |-> Get(data, "investment_type", "None"),
     risk_appetite |-> Get(data, "risk_appetite", "Moderate"),
     short_term_goals_text |-> Join(<<",", " ">>, Get(goals, "shortTerm", <<>>)),
     long_term_goals_text |-> Join(<<",", " ">>, Get(goals, "longTerm", <<>>))]

\* ---------------------------------------------------------------------
\* Prediction aggregator
\* ---------------------------------------------------------------------

\* the keys of goal_models in the order get_ml_goal_predictions consults them
ModelOrder == <<"feasibility", "priority", "timeline", "allocation_emergency", "allocation_short", "allocation_medium", "allocation_long">>

ModelKeys == {ModelOrder[i] : i \in 1..Len(ModelOrder)}

AllocationKeys == <<"allocation_emergency", "allocation_short", "allocation_medium", "allocation_long">>

\* the key of the prediction set a model writes
PredictionKey ==
    [feasibility |-> "feasibility_score", priority |-> "priority_score",
     timeline |-> "timeline_category",
     allocation_emergency |-> "allocation_emergency",
     allocation_short |-> "allocation_short",
     allocation_medium |-> "allocation_medium",
     allocation_long |-> "allocation_long"]

\* faulty variant: an equal split as the default allocation
get_fallback_predictions_equal_split ==
    [feasibility_score |-> Pt(65), priority_score |-> Pt(70),
     timeline_category |-> "mediumTerm",
     allocation_emergency |-> Pt(25), allocation_short |-> Pt(25),
     allocation_medium |-> Pt(25), allocation_long |-> Pt(25)]

get_fallback_predictions ==
    [feasibility_score |-> Pt(65), priority_score |-> Pt(70),
     timeline_category |-> "mediumTerm",
     allocation_emergency |-> Pt(25), allocation_short |-> Pt(20),
     allocation_medium |-> Pt(25), allocation_long |-> Pt(30)]

\* timeline_map.get(timeline_pred, 'mediumTerm')
timeline_map(code) ==
    CASE code = 0 -> "shortTerm"
      [] code = 1 -> "mediumTerm"
      [] code = 2 -> "longTerm"
      [] OTHER -> "mediumTerm"

\* max(5, min(50, float(allocation)))
ClampAllocation(a) == Max2(Pt(5), Min2(Pt(50), a))

\* the value a loaded model's answer is recorded as
RecordedValue(model, out) ==
    CASE model \in {"feasibility", "priority"} -> out
      [] model = "timeline" -> timeline_map(out)
      [] OTHER -> ClampAllocation(out)

\* the prediction set after the first n models of ModelOrder were consulted;
\* outs[m] is what model m answers
RECURSIVE PredictFirst(_, _, _)
PredictFirst(gm, outs, n) ==
    IF n = 0 THEN EmptyDict
    ELSE LET prev == PredictFirst(gm, outs, n - 1)
             m == ModelOrder[n]
         IN  IF m \in gm
             THEN Put(prev, PredictionKey[m], RecordedValue(m, outs[m]))
             ELSE prev

\* sum(predictions.get(f'allocation_{cat}', 25) for cat in ...)
TotalAllocation(predictions) ==
    FloatSum([i \in 1..Len(AllocationKeys) |-> Get(predictions, AllocationKeys[i], Pt(25))])

\* faulty variant: the difference goes to allocation_medium
DistributeToLong_through_medium(predictions) ==
    LET total_allocation == TotalAllocation(predictions)
    IN  IF total_allocation # Pt(100)
        THEN Put(predictions, "allocation_medium",
                 FloatAdd(Get(predictions, "allocation_medium", Pt(25)),
                          FloatSub(Pt(100), total_allocation)))
        ELSE predictions

\* "Ensure allocations sum to 100%": the difference goes to allocation_long
DistributeToLong(predictions) ==
    LET total_allocation == TotalAllocation(predictions)
    IN  IF total_allocation # Pt(100)
        THEN Put(predictions, "allocation_long",
                 FloatAdd(Get(predictions, "allocation_long", Pt(25)),
                          FloatSub(Pt(100), total_allocation)))
        ELSE predictions

\* the places of the try block that can raise: feature preparation and the
\* predict call of each loaded model
RaisePoints(gm) == {"features"} \cup gm

\* the number of models consulted before the exception at raiseAt
ConsultedBefore(raiseAt) ==
    IF raiseAt = "features" THEN 0
    ELSE (CHOOSE i \in 1..Len(ModelOrder) : ModelOrder[i] = raiseAt) - 1

\* faulty variant: the except branch returns what was predicted so far
get_ml_goal_predictions_keeping_partial(gm, outs, raiseAt) ==
    IF gm = {} THEN get_fallback_predictions
    ELSE IF raiseAt \in RaisePoints(gm)
    THEN PredictFirst(gm, outs, ConsultedBefore(raiseAt))
    ELSE DistributeToLong(PredictFirst(gm, outs, Len(ModelOrder)))

\* get_ml_goal_predictions, with goal_models = gm; raiseAt is "none" or the
\* place where an exception is raised
get_ml_goal_predictions(gm, outs, raiseAt) ==
    IF gm = {} THEN get_fallback_predictions
    ELSE IF raiseAt \in RaisePoints(gm) THEN get_fallback_predictions
    ELSE DistributeToLong(PredictFirst(gm, outs, Len(ModelOrder)))

\* ---------------------------------------------------------------------
\* Category scorer
\* ---------------------------------------------------------------------

\* category_multiplier, in tenths
category_multiplier ==
    [retirement |-> 12, childrenEducation |-> 11, houseCar |-> 10,
     business |-> 9, travelLifestyle |-> 8, shortTerm |-> 7,
     mediumTerm |-> 9, longTerm |-> 11]

process_priority_predictions(goals, ml_predictions) ==
    LET base_priority_score == Get(ml_predictions, "priority_score", Pt(70))
    IN  [category \in {c \in DOMAIN goals : goals[c] # <<>>} |->
            LET adjusted_score == (base_priority_score * Get(category_multiplier, category, 10)) \div 10
            IN  [score |-> base_priority_score,
                 normalizedScore |-> Min2(Pt(100), adjusted_score),
                 goals |-> goals[category],
                 ml_prediction |-> TRUE]]

category_adjustments ==
    [retirement |-> Pt(5), shortTerm |-> Pt(10), houseCar |-> Pt(-5),
     business |-> Pt(-10), childrenEducation |-> Pt(5),
     travelLifestyle |-> Pt(0), longTerm |-> Pt(8)]

\* faulty variant: the total length of the goals instead of their average
DetailBonus_of_total_length(goal_list) ==
    LET total == SumSeq([i \in 1..Len(goal_list) |-> Len(goal_list[i])])
    IN  IF total > 100 THEN Pt(15)
        ELSE IF total > 50 THEN Pt(8)
        ELSE 0

\* the bonus for the average goal length: sum / len > 100 is sum > 100 * len
DetailBonus(goal_list) ==
    LET total == SumSeq([i \in 1..Len(goal_list) |-> Len(goal_list[i])])
    IN  IF total > 100 * Len(goal_list) THEN Pt(15)
        ELSE IF total > 50 * Len(goal_list) THEN Pt(8)
        ELSE 0

process_feasibility_predictions(goals, ml_predictions) ==
    LET base_feasibility == Get(ml_predictions, "feasibility_score", Pt(65))
    IN  [category \in {c \in DOMAIN goals : goals[c] # <<>>} |->
            LET adjusted_score == base_feasibility
                                  + Get(category_adjustments, category, 0)
                                  + DetailBonus(goals[category])
            IN  Max2(0, Min2(Pt(100), adjusted_score))]

\* ---------------------------------------------------------------------
\* Timeline buckets
\* ---------------------------------------------------------------------

timeline_mapping ==
    [shortTerm |-> "shortTerm", houseCar |-> "mediumTerm",
     business |-> "mediumTerm", childrenEducation |-> "longTerm",
     retirement |-> "longTerm", longTerm |-> "longTerm",
     travelLifestyle |-> "mediumTerm"]

\* faulty variant: every category follows the predicted timeline
TimelineOf_following_prediction(category, ml_predictions) ==
    IF "timeline_category" \in DOMAIN ml_predictions
    THEN ml_predictions["timeline_category"]
    ELSE Get(timeline_mapping, category, "mediumTerm")

\* the bucket process_timeline_predictions puts a category's goals in
TimelineOf(category, ml_predictions) ==
    LET primary_timeline == Get(ml_predictions, "timeline_category", "mediumTerm")
    IN  IF "timeline_category" \in DOMAIN ml_predictions
        THEN IF primary_timeline = "shortTerm" /\ category \in {"shortTerm", "travelLifestyle"}
             THEN "shortTerm"
             ELSE IF primary_timeline = "longTerm"
                     /\ category \in {"retirement", "childrenEducation", "longTerm"}
             THEN "longTerm"
             ELSE Get(timeline_mapping, category, "mediumTerm")
        ELSE Get(timeline_mapping, category, "mediumTerm")

\* f"{goal} ({category})"
GoalWithContext(goal, category) ==
    goal \o <<" ", "(">> \o CategoryChars[category] \o <<")">>

\* the goals of the first n categories (in dict order) that land in bucket
RECURSIVE BucketEntries(_, _, _, _)
BucketEntries(goals, ml_predictions, bucket, n) ==
    IF n = 0 THEN <<>>
    ELSE LET category == KeysOf(goals)[n]
             before == BucketEntries(goals, ml_predictions, bucket, n - 1)
         IN  IF TimelineOf(category, ml_predictions) = bucket
             THEN before \o [i \in 1..Len(goals[category]) |->
                                GoalWithContext(goals[category][i], category)]
             ELSE before

process_timeline_predictions(goals, ml_predictions) ==
    [bucket \in {"immediate", "shortTerm", "mediumTerm", "longTerm"} |->
        BucketEntries(goals, ml_predictions, bucket, Len(KeysOf(goals)))]

\* ---------------------------------------------------------------------
\* Allocation reconciler and confidence estimator
\* ---------------------------------------------------------------------

\* faulty variant: longTerm is clamped into the band after the balancing
process_allocation_predictions_clamping_long(ml_predictions) ==
    LET allocation ==
            [emergencyFund |-> Get(ml_predictions, "allocation_emergency", Pt(25)),
             shortTerm |-> Get(ml_predictions, "allocation_short", Pt(25)),
             mediumTerm |-> Get(ml_predictions, "allocation_medium", Pt(25)),
             longTerm |-> Get(ml_predictions, "allocation_long", Pt(25))]
        total == FloatSum(<<allocation.emergencyFund, allocation.shortTerm,
                            allocation.mediumTerm, allocation.longTerm>>)
    IN  [allocation EXCEPT !.longTerm = ClampAllocation(FloatAdd(@, FloatSub(Pt(100), total)))]

\* faulty variant: the plan is read off the prediction set and not balanced
process_allocation_predictions_without_balancing(ml_predictions) ==
    [emergencyFund |-> Get(ml_predictions, "allocation_emergency", Pt(25)),
     shortTerm |-> Get(ml_predictions, "allocation_short", Pt(25)),
     mediumTerm |-> Get(ml_predictions, "allocation_medium", Pt(25)),
     longTerm |-> Get(ml_predictions, "allocation_long", Pt(25))]

process_allocation_predictions(ml_predictions) ==
    LET allocation ==
            [emergencyFund |-> Get(ml_predictions, "allocation_emergency", Pt(25)),
             shortTerm |-> Get(ml_predictions, "allocation_short", Pt(25)),
             mediumTerm |-> Get(ml_predictions, "allocation_medium", Pt(25)),
             longTerm |-> Get(ml_predictions, "allocation_long", Pt(25))]
        total == FloatSum(<<allocation.emergencyFund, allocation.shortTerm,
                            allocation.mediumTerm, allocation.longTerm>>)
    IN  IF total # Pt(100)
        THEN [allocation EXCEPT !.longTerm = FloatAdd(@, FloatSub(Pt(100), total))]
        ELSE allocation

\* a confidence of x/100 for a score x, and the fixed confidences
Hundredth(score) == score

SeqMax(s) == CHOOSE x \in {s[i] : i \in 1..Len(s)} : \A j \in 1..Len(s) : x >= s[j]

SeqMin(s) == CHOOSE x \in {s[i] : i \in 1..Len(s)} : \A j \in 1..Len(s) : x <= s[j]

\* faulty variant: only the largest allocation is looked at
calculate_ml_confidence_score_ignoring_min(ml_predictions) ==
    IF DOMAIN ml_predictions = {} THEN 0
    ELSE LET base_confidence == Hundredth(Get(ml_predictions, "feasibility_score", Pt(65)))
             allocations == [i \in 1..Len(AllocationKeys) |->
                                Get(ml_predictions, AllocationKeys[i], Pt(25))]
             adjusted == IF SeqMax(allocations) > Pt(60)
                         THEN (base_confidence * 8) \div 10
                         ELSE base_confidence
         IN  Min2(10000, adjusted)

calculate_ml_confidence_score(ml_predictions) ==
    IF DOMAIN ml_predictions = {} THEN 0
    ELSE LET base_confidence == Hundredth(Get(ml_predictions, "feasibility_score", Pt(65)))
             allocations == [i \in 1..Len(AllocationKeys) |->
                                Get(ml_predictions, AllocationKeys[i], Pt(25))]
             adjusted == IF SeqMax(allocations) > Pt(60) \/ SeqMin(allocations) < Pt(10)
                         THEN (base_confidence * 8) \div 10
                         ELSE base_confidence
         IN  Min2(10000, adjusted)

\* ---------------------------------------------------------------------
\* Recommendation synthesizer
\* ---------------------------------------------------------------------

Quoted(text) == <<"'">> \o text \o <<"'">>

\* repr of a list of str
ReprList(goal_list) ==
    <<"[">> \o Join(<<",", " ">>, [i \in 1..Len(goal_list) |-> Quoted(goal_list[i])]) \o <<"]">>

\* str(goals): the whole dict, keys included
StrGoals(goals) ==
    LET keys == KeysOf(goals)
    IN  <<"{">>
        \o Join(<<",", " ">>,
                [i \in 1..Len(keys) |->
                    Quoted(CategoryChars[keys[i]]) \o <<":", " ">> \o ReprList(goals[keys[i]])])
        \o <<"}">>

\* faulty variant: the test without lower()
MentionsEmergency_case_sensitive(goals) ==
    /\ DOMAIN goals # {}
    /\ Contains(StrGoals(goals), <<"e", "m", "e", "r", "g", "e", "n", "c", "y">>)

\* any('emergency' in str(goals).lower() for goals_list in goals.values()):
\* the same test of the whole dict, once per value, so false of an empty dict
MentionsEmergency(goals) ==
    /\ DOMAIN goals # {}
    /\ Contains(Lower(StrGoals(goals)), <<"e", "m", "e", "r", "g", "e", "n", "c", "y">>)

Recommendation(type, category, priority, confidence) ==
    [type |-> type, category |-> category, priority |-> priority, confidence |-> confidence]

\* faulty variant: the records carry the category's own feasibility as
\* their confidence
RECURSIVE CategoryRecommendations_with_category_confidence(_, _, _, _, _)
CategoryRecommendations_with_category_confidence(type, priorities, feasibility_scores, ml_predictions, n) ==
    IF n = 0 THEN <<>>
    ELSE LET category == KeysOf(priorities)[n]
             before == CategoryRecommendations_with_category_confidence(type, priorities, feasibility_scores, ml_predictions, n - 1)
             feasibility == Get(feasibility_scores, category, 0)
             confidence == Hundredth(feasibility)
             high == priorities[category].normalizedScore > Pt(60)
         IN  IF type = "high_priority_feasible" /\ high /\ feasibility > Pt(70)
             THEN Append(before, Recommendation(type, category, "high", confidence))
             ELSE IF type = "review_adjust" /\ high /\ feasibility < Pt(50)
             THEN Append(before, Recommendation(type, category, "medium", confidence))
             ELSE before

\* faulty variant: the review rule reaches up to a feasibility of 80 and
\* overlaps the rule for feasible goals
RECURSIVE CategoryRecommendations_overlapping_rules(_, _, _, _, _)
CategoryRecommendations_overlapping_rules(type, priorities, feasibility_scores, ml_predictions, n) ==
    IF n = 0 THEN <<>>
    ELSE LET category == KeysOf(priorities)[n]
             before == CategoryRecommendations_overlapping_rules(type, priorities, feasibility_scores, ml_predictions, n - 1)
             feasibility == Get(feasibility_scores, category, 0)
             confidence == Hundredth(Get(ml_predictions, "feasibility_score", Pt(65)))
             high == priorities[category].normalizedScore > Pt(60)
         IN  IF type = "high_priority_feasible" /\ high /\ feasibility > Pt(70)
             THEN Append(before, Recommendation(type, category, "high", confidence))
             ELSE IF type = "review_adjust" /\ high /\ feasibility < Pt(80)
             THEN Append(before, Recommendation(type, category, "medium", confidence))
             ELSE before

\* the records of one per-category loop, for the first n categories
RECURSIVE CategoryRecommendations(_, _, _, _, _)
CategoryRecommendations(type, priorities, feasibility_scores, ml_predictions, n) ==
    IF n = 0 THEN <<>>
    ELSE LET category == KeysOf(priorities)[n]
             before == CategoryRecommendations(type, priorities, feasibility_scores, ml_predictions, n - 1)
             feasibility == Get(feasibility_scores, category, 0)
             confidence == Hundredth(Get(ml_predictions, "feasibility_score", Pt(65)))
             high == priorities[category].normalizedScore > Pt(60)
         IN  IF type = "high_priority_feasible" /\ high /\ feasibility > Pt(70)
             THEN Append(before, Recommendation(type, category, "high", confidence))
             ELSE IF type = "review_adjust" /\ high /\ feasibility < Pt(50)
             THEN Append(before, Recommendation(type, category, "medium", confidence))
             ELSE before

\* the recommendations list as the rules append to it, before the sort
EmittedRecommendations(goals, priorities, feasibility_scores, ml_predictions) ==
    LET n == Len(KeysOf(priorities))
    IN  CategoryRecommendations("high_priority_feasible", priorities, feasibility_scores, ml_predictions, n)
        \o CategoryRecommendations("review_adjust", priorities, feasibility_scores, ml_predictions, n)
        \o (IF Cardinality(DOMAIN goals) > 5
            THEN <<Recommendation("focus_management", "general", "medium", 8000)>>
            ELSE <<>>)
        \o (IF ~MentionsEmergency(goals)
            THEN <<Recommendation("missing_emergency_fund", "emergency", "high", 9000)>>
            ELSE <<>>)
        \o (IF Get(ml_predictions, "feasibility_score", 0) # 0
            THEN <<Recommendation("ml_insights", "general", "low", 10000)>>
            ELSE <<>>)

priority_order == [high |-> 3, medium |-> 2, low |-> 1]

\* the sort key (priority_order, confidence) of a record
Rank(r) == Get(priority_order, r.priority, 2)

\* key(a) >= key(b) on the tuples
KeyAtLeast(a, b) ==
    Rank(a) > Rank(b) \/ (Rank(a) = Rank(b) /\ a.confidence >= b.confidence)

\* faulty variant: an ascending sort followed by reverse(), which turns the
\* records of equal key around
RECURSIVE SortRecommendations_reversing_ties(_)
SortRecommendations_reversing_ties(recs) ==
    IF recs = <<>> THEN <<>>
    ELSE LET sorted == SortRecommendations_reversing_ties(SubSeq(recs, 1, Len(recs) - 1))
             r == recs[Len(recs)]
             ahead == Cardinality({i \in 1..Len(sorted) :
                                     KeyAtLeast(sorted[i], r) /\ ~KeyAtLeast(r, sorted[i])})
         IN  SubSeq(sorted, 1, ahead) \o <<r>> \o SubSeq(sorted, ahead + 1, Len(sorted))

\* list.sort(key, reverse=True) is stable: a record goes behind every record
\* before it whose key is not smaller
RECURSIVE SortRecommendations(_)
SortRecommendations(recs) ==
    IF recs = <<>> THEN <<>>
    ELSE LET sorted == SortRecommendations(SubSeq(recs, 1, Len(recs) - 1))
             r == recs[Len(recs)]
             ahead == Cardinality({i \in 1..Len(sorted) : KeyAtLeast(sorted[i], r)})
         IN  SubSeq(sorted, 1, ahead) \o <<r>> \o SubSeq(sorted, ahead + 1, Len(sorted))

generate_ml_recommendations(goals, priorities, feasibility_scores, ml_predictions) ==
    SortRecommendations(EmittedRecommendations(goals, priorities, feasibility_scores, ml_predictions))

\* the dict analyze_goal_data returns
analyze_goal_data(goals, ml_predictions) ==
    LET priorities == process_priority_predictions(goals, ml_predictions)
        feasibility_scores == process_feasibility_predictions(goals, ml_predictions)
    IN  [goals |-> goals,
         priorities |-> priorities,
         timelineAnalysis |-> process_timeline_predictions(goals, ml_predictions),
         feasibilityScores |-> feasibility_scores,
         recommendations |-> generate_ml_recommendations(goals, priorities, feasibility_scores, ml_predictions),
         investmentAllocation |-> process_allocation_predictions(ml_predictions),
         confidenceScore |-> calculate_ml_confidence_score(ml_predictions),
         mlInsights |-> ml_predictions]

\* ---------------------------------------------------------------------
\* Requests
\* ---------------------------------------------------------------------

Form(st, mt, lt, ret, hc, ce, biz, tr) ==
    [shortTermGoals |-> st, mediumTermGoals |-> mt, longTermGoals |-> lt,
     retirementPlan |-> ret, houseCarPurchase |-> hc,
     childrenEducationWedding |-> ce, startBusiness |-> biz,
     travelLifestyleGoals |-> tr, goalPriorities |-> <<>>, goalTimelines |-> <<>>]

BuyALaptop == <<"B", "u", "y", " ", "a", " ", "l", "a", "p", "t", "o", "p">>

BuildEmergencyReserve == <<"B", "u", "i", "l", "d", " ", "e", "m", "e", "r", "g", "e", "n", "c", "y", " ", "r", "e", "s", "e", "r", "v", "e">>

UpperEmergencyFund == <<"E", "M", "E", "R", "G", "E", "N", "C", "Y", " ", "F", "u", "n", "d", ",", " ", "S", "a", "v", "e", " ", "m", "o", "r", "e">>

EmerGency == <<"E", "m", "e", "r", ",", " ", "g", "e", "n", "c", "y">>

OnlyCommas == <<" ", ",", " ", ",">>

RetireAt60 == <<"R", "e", "t", "i", "r", "e", " ", "a", "t", " ", "6", "0">>

NewCar == <<" ", "N", "e", "w", " ", "c", "a", "r", " ">>

CollegeFund == <<"C", "o", "l", "l", "e", "g", "e", " ", "f", "u", "n", "d">>

OpenACafe == <<"O", "p", "e", "n", " ", "a", " ", "c", "a", "f", "e">>

VisitJapan == <<"V", "i", "s", "i", "t", " ", "J", "a", "p", "a", "n">>

SaveMore == <<"S", "a", "v", "e", " ", "m", "o", "r", "e">>

\* the request bodies the model submits
GoalForms ==
    {Form(<<>>, <<>>, <<>>, <<>>, <<>>, <<>>, <<>>, <<>>),
     Form(BuyALaptop, <<>>, <<>>, <<>>, <<>>, <<>>, <<>>, <<>>),
     Form(<<>>, <<>>, <<>>, BuildEmergencyReserve, NewCar, <<>>, <<>>, <<>>),
     Form(<<>>, <<>>, UpperEmergencyFund, <<>>, <<>>, <<>>, <<>>, <<>>),
     Form(EmerGency, OnlyCommas, <<>>, <<>>, <<>>, <<>>, <<>>, <<>>),
     Form(<<>>, SaveMore, <<>>, RetireAt60, NewCar, CollegeFund,
          Repeat("x", LongDetail), Repeat("y", MidDetail) \o <<",">> \o Repeat("y", MidDetail))}

\* the fields of GoalBasedPlanningRequest, all of them required strings
RequestFields ==
    {"shortTermGoals", "mediumTermGoals", "longTermGoals", "retirementPlan",
     "houseCarPurchase", "childrenEducationWedding", "startBusiness",
     "travelLifestyleGoals", "goalPriorities", "goalTimelines"}

\* the financial fields of a profile
FinancialFields == {"monthly_income", "expenses", "savings", "emergency_fund", "debt_amount", "monthly_emi"}

\* a JSON number and a JSON string in a posted body
Number(n) == [number |-> n]

Text(t) == [text |-> t]

\* the JSON bodies posted to /analyze-goal-based-planning: the forms, forms
\* that also carry financial fields, and a body that lacks a required field
Bodies ==
    GoalForms
    \cup {[monthly_income |-> Number(-5000)] @@ Form(BuyALaptop, <<>>, <<>>, <<>>, <<>>, <<>>, <<>>, <<>>),
          [savings |-> Text(<<"a", "b", "c">>)] @@ Form(BuyALaptop, <<>>, <<>>, <<>>, <<>>, <<>>, <<>>, <<>>),
          [monthly_income |-> Number(80000), monthly_emi |-> Number(0)] @@ Form(<<>>, <<>>, <<>>, RetireAt60, <<>>, <<>>, <<>>, <<>>),
          [f \in RequestFields \ {"goalTimelines"} |-> <<>>]}

\* pydantic accepts a body that has every field of the request model
Validates(body) == RequestFields \subseteq DOMAIN body

\* data.dict(): the fields of the request model; anything else in the body
\* is ignored
GoalBasedPlanningRequest(body) == [f \in RequestFields |-> body[f]]

\* the stages of analyze_goal_data after the predictions, and the
\* construction of the response, in the order they run
Stages == <<"priority", "timeline", "feasibility", "allocation", "recommendations", "confidence", "response">>

\* ---------------------------------------------------------------------
\* State
\* ---------------------------------------------------------------------

VARIABLES
    goal_models,            \* the keys of the goal_models dict
    goal_scaler,            \* TRUE when goal_scaler is loaded
    goal_label_encoders,    \* TRUE when the label encoders are loaded
    goal_tfidf_vectorizers, \* TRUE when the vectorizers are loaded
    goal_svd_transformers,  \* TRUE when the SVD transformers are loaded
    pc,                     \* position of the request being served: "done"
                            \* with the response body ready, "failed" when the
                            \* handler raised, "rejected" when the body is invalid
    body,                   \* the JSON body posted
    data,                   \* data.dict(), the validated request
    user_profile,           \* the profile of analyze_goal_data
    raised,                 \* where get_ml_goal_predictions caught an exception
    goals,                  \* the goals dict of analyze_goal_data
    ml_predictions,         \* the prediction set of analyze_goal_data
    failed,                 \* the stage that raised an exception
    analysis,               \* the response body
    status,                 \* the HTTP status of the response, 0 before it
    models,                 \* the keys of the models dict of the debt analysis
    scaler,                 \* TRUE when the scaler of the debt analysis is loaded
    debt_pc,                \* position of the debt analysis request
    debt_request,           \* the DebtAnalysisRequest being served
    debt_response,          \* the response of analyze_debt
    answers,                \* what the predictors answer, where a specification
                            \* fixes it beforehand
    faults,                 \* what the encoders, vectorizers, reducers and the
                            \* scaler do when prepare_ml_features calls them
    features,               \* what prepare_ml_features returns
    start_pc,               \* position of start_backend.py: "shell" before it
                            \* runs, "returned" after main, "exited"
    installed,              \* TRUE when the required packages can be imported
    models_dir,             \* the files of backend/models, None without it
    server_started,         \* TRUE when start_server was called
    success                 \* what main returned

bank == <<goal_models, goal_scaler, goal_label_encoders, goal_tfidf_vectorizers, goal_svd_transformers>>

request == <<pc, body, data, user_profile, raised, goals, ml_predictions, failed, analysis, status>>

debt == <<models, scaler, debt_pc, debt_request, debt_response>>

launcher == <<start_pc, installed, models_dir, server_started, success>>

vars == <<goal_models, goal_scaler, goal_label_encoders, goal_tfidf_vectorizers, goal_svd_transformers, pc, body, data, user_profile, raised, goals, ml_predictions, failed, analysis, status, models, scaler, debt_pc, debt_request, debt_response, answers, faults, features, start_pc, installed, models_dir, server_started, success>>

Init ==
    /\ goal_models = {}
    /\ goal_scaler = FALSE
    /\ goal_label_encoders = FALSE
    /\ goal_tfidf_vectorizers = FALSE
    /\ goal_svd_transformers = FALSE
    /\ pc = "idle"
    /\ body = EmptyDict
    /\ data = EmptyDict
    /\ user_profile = EmptyDict
    /\ raised = "none"
    /\ goals = EmptyDict
    /\ ml_predictions = EmptyDict
    /\ failed = "none"
    /\ analysis = EmptyDict
    /\ status = 0
    /\ models = {}
    /\ scaler = FALSE
    /\ debt_pc = "idle"
    /\ debt_request = EmptyDict
    /\ debt_response = EmptyDict
    /\ answers = EmptyDict
    /\ faults = EmptyDict
    /\ features = EmptyDict
    /\ start_pc = "shell"
    /\ installed = TRUE
    /\ models_dir = None
    /\ server_started = FALSE
    /\ success = "None"

\* the artifacts load_goal_models reads, in order
Artifacts == ModelOrder \o <<"goal_scaler", "goal_label_encoders", "goal_tfidf_vectorizers", "goal_svd_transformers">>

\* load_goal_models: joblib.load raises at artifact failAt (0: none does);
\* what was assigned before stays assigned.  The SVD file is optional.
load_goal_models(failAt, svdExists) ==
    LET loaded(i) == failAt = 0 \/ i < failAt
    IN  /\ pc = "idle"
        /\ goal_models' = goal_models \cup {ModelOrder[i] : i \in {j \in 1..Len(ModelOrder) : loaded(j)}}
        /\ goal_scaler' = (goal_scaler \/ loaded(8))
        /\ goal_label_encoders' = (goal_label_encoders \/ loaded(9))
        /\ goal_tfidf_vectorizers' = (goal_tfidf_vectorizers \/ loaded(10))
        /\ goal_svd_transformers' = (goal_svd_transformers \/ (loaded(11) /\ svdExists))
        /\ UNCHANGED request
        /\ UNCHANGED debt
        /\ UNCHANGED <<answers, faults, features, launcher>>

\* POST /analyze-goal-based-planning arrives.  A body that does not validate
\* is answered 422 before the handler runs; otherwise analyze_goal_data
\* extracts the goals from data.dict()
ReceiveRequest(posted) ==
    /\ pc = "idle"
    /\ body' = posted
    /\ IF Validates(posted)
       THEN /\ pc' = "received"
            /\ data' = GoalBasedPlanningRequest(posted)
            /\ goals' = ExtractGoals(GoalBasedPlanningRequest(posted))
            /\ status' = 0
       ELSE /\ pc' = "rejected"
            /\ data' = EmptyDict
            /\ goals' = EmptyDict
            /\ status' = 422
    /\ UNCHANGED <<user_profile, raised, ml_predictions, failed, analysis>>
    /\ UNCHANGED bank
    /\ UNCHANGED debt
    /\ UNCHANGED <<answers, faults, features, launcher>>

\* the places where the try block of get_ml_goal_predictions may raise
RaiseChoices(gm) == {"none"} \cup (IF gm = {} THEN {} ELSE RaisePoints(gm))

\* what a model may answer: a model that is not loaded, or that an earlier
\* exception keeps from being consulted, is not asked
OutputsOf(gm, raiseAt, model, outputs) ==
    IF model \in gm
       /\ (raiseAt = "none"
           \/ (CHOOSE i \in 1..Len(ModelOrder) : ModelOrder[i] = model) <= ConsultedBefore(raiseAt))
    THEN outputs
    ELSE {0}

\* faulty variant: a model that raised is taken out of the bank
GetPredictions_dropping_failed_model(outs, raiseAt) ==
    /\ pc' = "predicted"
    /\ user_profile' = create_user_profile_for_ml(data, goals)
    /\ ml_predictions' = get_ml_goal_predictions(goal_models, outs, raiseAt)
    /\ raised' = IF goal_models # {} /\ raiseAt \in RaisePoints(goal_models) THEN raiseAt ELSE "none"
    /\ goal_models' = goal_models \ {raiseAt}
    /\ UNCHANGED <<body, data, goals, failed, analysis, status>>
    /\ UNCHANGED <<goal_scaler, goal_label_encoders, goal_tfidf_vectorizers, goal_svd_transformers>>
    /\ UNCHANGED debt
    /\ UNCHANGED <<answers, faults, features, launcher>>

\* get_ml_goal_predictions(create_user_profile_for_ml(data, goals)), the
\* models answering outs and the try block raising at raiseAt
GetPredictions(outs, raiseAt) ==
    /\ pc' = "predicted"
    /\ user_profile' = create_user_profile_for_ml(data, goals)
    /\ ml_predictions' = get_ml_goal_predictions(goal_models, outs, raiseAt)
    /\ raised' = IF goal_models # {} /\ raiseAt \in RaisePoints(goal_models) THEN raiseAt ELSE "none"
    /\ UNCHANGED <<body, data, goals, failed, analysis, status>>
    /\ UNCHANGED bank
    /\ UNCHANGED debt
    /\ UNCHANGED <<answers, faults, features, launcher>>

\* the second step of a request, for every answer of the models
Predict ==
    /\ pc = "received"
    /\ \E raiseAt \in RaiseChoices(goal_models) :
          \E f \in OutputsOf(goal_models, raiseAt, "feasibility", ScoreOutputs),
             p \in OutputsOf(goal_models, raiseAt, "priority", ScoreOutputs),
             t \in OutputsOf(goal_models, raiseAt, "timeline", TimelineOutputs),
             e \in OutputsOf(goal_models, raiseAt, "allocation_emergency", AllocOutputs),
             s \in OutputsOf(goal_models, raiseAt, "allocation_short", AllocOutputs),
             m \in OutputsOf(goal_models, raiseAt, "allocation_medium", AllocOutputs),
             l \in OutputsOf(goal_models, raiseAt, "allocation_long", AllocOutputs) :
                GetPredictions([feasibility |-> f, priority |-> p, timeline |-> t,
                                allocation_emergency |-> e, allocation_short |-> s,
                                allocation_medium |-> m, allocation_long |-> l], raiseAt)

\* faulty variant: the handler answers 200 with what the stages before the
\* exception had computed
analyze_goal_based_planning_returning_partial(stage) ==
    LET whole == analyze_goal_data(goals, ml_predictions)
        computed == {"goals"} \cup
                    (IF stage \in {"timeline", "feasibility", "allocation", "recommendations", "confidence"} THEN {"priorities"} ELSE {})
                    \cup (IF stage \in {"feasibility", "allocation", "recommendations", "confidence"} THEN {"timelineAnalysis"} ELSE {})
                    \cup (IF stage \in {"allocation", "recommendations", "confidence"} THEN {"feasibilityScores"} ELSE {})
                    \cup (IF stage \in {"recommendations", "confidence"} THEN {"investmentAllocation"} ELSE {})
                    \cup (IF stage = "confidence" THEN {"recommendations"} ELSE {})
    IN  /\ pc' = "done"
        /\ failed' = stage
        /\ analysis' = IF stage \in {"none", "response"} THEN whole ELSE [k \in computed |-> whole[k]]
        /\ status' = 200
        /\ UNCHANGED <<raised, goals, ml_predictions>>

\* the try block of analyze_goal_based_planning after the predictions: the
\* rest of analyze_goal_data and the construction of the response.  An
\* exception raised at stage leaves the frame of analyze_goal_data and is
\* answered with HTTPException(500)
analyze_goal_based_planning(stage) ==
    /\ failed' = stage
    /\ IF stage = "none"
       THEN /\ pc' = "done"
            /\ analysis' = analyze_goal_data(goals, ml_predictions)
            /\ status' = 200
            /\ UNCHANGED <<raised, goals, ml_predictions>>
       ELSE /\ pc' = "failed"
            /\ analysis' = EmptyDict
            /\ status' = 500
            /\ raised' = "none"
            /\ goals' = EmptyDict
            /\ ml_predictions' = EmptyDict

\* the rest of the request, every stage running or one of them raising
ProcessPredictions ==
    /\ pc = "predicted"
    /\ \E stage \in {"none"} \cup {Stages[i] : i \in 1..Len(Stages)} :
          analyze_goal_based_planning(stage)
    /\ UNCHANGED <<body, data, user_profile>>
    /\ UNCHANGED bank
    /\ UNCHANGED debt
    /\ UNCHANGED <<answers, faults, features, launcher>>

\* the response is sent; nothing of the request stays
Respond ==
    /\ pc \in {"done", "failed", "rejected"}
    /\ pc' = "idle"
    /\ body' = EmptyDict
    /\ data' = EmptyDict
    /\ user_profile' = EmptyDict
    /\ raised' = "none"
    /\ goals' = EmptyDict
    /\ ml_predictions' = EmptyDict
    /\ failed' = "none"
    /\ analysis' = EmptyDict
    /\ status' = 0
    /\ UNCHANGED bank
    /\ UNCHANGED debt
    /\ UNCHANGED <<answers, faults, features, launcher>>

Next ==
    \/ \E failAt \in 0..Len(Artifacts), svdExists \in BOOLEAN : load_goal_models(failAt, svdExists)
    \/ \E posted \in Bodies : ReceiveRequest(posted)
    \/ Predict
    \/ ProcessPredictions
    \/ Respond

Spec == Init /\ [][Next]_vars

\* ---------------------------------------------------------------------
\* Debt analysis
\* ---------------------------------------------------------------------

\* predict_proba(...)[0][1] of the risk model, in hundredths
RiskOutputs == {Min2(100, 5 + 30 * i) : i \in 0..MaxRiskIdx}

\* predict(...)[0] of the debt capacity model, in rupees
CapacityOutputs == {200000, 2000000}

\* predict(...)[0] of the financial health classifier and of the clustering model
ClassOutputs == 0..MaxClassCode

\* np.random.uniform(0.7, 0.95), in hundredths
SimilarityOutputs == {70, 94}

\* a / b if b > 0 else 0, kept as a fraction
Ratio(a, b) == IF b > 0 THEN <<a, b>> ELSE <<0, 1>>

\* ratio > hundredths / 100
Exceeds(ratio, hundredths) == 100 * ratio[1] > hundredths * ratio[2]

DebtAnalysisRequest(income, expenses, savings, emergency, debt_amount, emi) ==
    [monthly_income |-> income, expenses |-> expenses, savings |-> savings,
     emergency_fund |-> emergency, debt_amount |-> debt_amount, monthly_emi |-> emi,
     age |-> 30, occupation |-> "Salaried", has_loans |-> TRUE]

\* the requests posted to /analyze-debt: the two of the API checks, one with
\* a heavy instalment and one without income
DebtRequests ==
    {DebtAnalysisRequest(50000, 30000, 15000, 150000, 500000, 8000),
     DebtAnalysisRequest(100000, 60000, 20000, 300000, 50000, 15000),
     DebtAnalysisRequest(40000, 35000, 1000, 0, 30000, 24000),
     DebtAnalysisRequest(0, 10000, 0, 0, 0, 0)}

\* the files of the models directory that the debt analysis uses
DebtFiles == {"risk_model", "debt_capacity_model", "financial_health_model", "clustering_model", "scaler"}

\* the four predictors analyze_debt consults
DebtPredictors == {"risk_model", "debt_capacity_model", "financial_health_model", "clustering_model"}

\* generate_recommendations, each message named by its subject
generate_recommendations(risk_score, debt_ratio, emi_ratio, income, debt_amount, savings) ==
    LET recommendations ==
            (IF risk_score > 70 THEN <<"high_risk_alert">> ELSE <<>>)
            \o (IF Exceeds(emi_ratio, 50) THEN <<"emi_burden_very_high">> ELSE <<>>)
            \o (IF Exceeds(emi_ratio, 40) THEN <<"emi_ratio_concerning">> ELSE <<>>)
            \o (IF Exceeds(debt_ratio, 80) THEN <<"high_debt_to_income">> ELSE <<>>)
            \o (IF 10 * savings < income THEN <<"build_emergency_fund">> ELSE <<>>)
            \o (IF debt_amount > 0 /\ 10 * savings > debt_amount THEN <<"prepay_with_savings">> ELSE <<>>)
    IN  IF Len(recommendations) = 0 THEN <<"debt_manageable">> ELSE recommendations

\* analyze_cluster: cluster_profiles.get(cluster_id, cluster_profiles[1])
analyze_cluster(cluster_id, similarity) ==
    [cluster_id |-> cluster_id,
     profile_name |-> CASE cluster_id = 0 -> "Conservative Savers"
                        [] cluster_id = 2 -> "High-Risk Borrowers"
                        [] OTHER -> "Balanced Borrowers",
     similarity_score |-> similarity]

\* calculate_confidence: the confidence, in 1/10000, is computed and the
\* function ends without a return statement, so the call gives None
calculate_confidence(risk_score, debt_ratio, emi_ratio) ==
    LET by_ratio == IF Exceeds(debt_ratio, 100) \/ Exceeds(emi_ratio, 100) THEN 7000
                    ELSE IF Exceeds(debt_ratio, 80) \/ Exceeds(emi_ratio, 50) THEN 8500
                    ELSE 10000
        confidence == IF 30 <= risk_score /\ risk_score <= 70
                      THEN (by_ratio * 9) \div 10
                      ELSE by_ratio
    IN  None

\* raise HTTPException(status_code=500, detail=str(e)) of the except branch
InternalServerError(e) == [status |-> 500, detail |-> e]

\* the body of analyze_debt with models = mods and scaler = sc; outs holds
\* the answers of the predictors, raises tells that the scaler or a
\* predictor raised.  Every exception of the try block, the
\* HTTPException(503) included, reaches the except branch.
analyze_debt(mods, sc, req, outs, raises) ==
    IF mods = {} \/ ~sc THEN InternalServerError("HTTPException(503): Models not loaded")
    ELSE IF raises THEN InternalServerError("ValueError")
    ELSE IF ~(DebtPredictors \subseteq mods) THEN InternalServerError("KeyError")
    ELSE LET debt_to_income_ratio == Ratio(req.debt_amount, req.monthly_income)
             emi_to_income_ratio == Ratio(req.monthly_emi, req.monthly_income)
             risk_score == outs.risk
             risk_category == IF risk_score > 70 THEN "High Risk"
                              ELSE IF risk_score > 40 THEN "Medium Risk"
                              ELSE "Low Risk"
             financial_health == CASE outs.health = 0 -> "Good"
                                   [] outs.health = 2 -> "Poor"
                                   [] OTHER -> "Average"
             confidence_score == calculate_confidence(risk_score, debt_to_income_ratio, emi_to_income_ratio)
         IN  IF confidence_score = None THEN InternalServerError("TypeError")
             ELSE [status |-> 200,
                   risk_score |-> risk_score,
                   risk_category |-> risk_category,
                   debt_capacity |-> outs.capacity,
                   recommended_emi |-> Min2(30 * req.monthly_income, 5 * outs.capacity),
                   financial_health |-> financial_health,
                   recommendations |-> generate_recommendations(risk_score, debt_to_income_ratio,
                                            emi_to_income_ratio, req.monthly_income,
                                            req.debt_amount, req.savings),
                   cluster_analysis |-> analyze_cluster(outs.cluster, outs.similarity),
                   confidence_score |-> confidence_score[1]]

\* startup_event: every file found in the models directory is loaded into
\* models, then the scaler; completes is FALSE when a joblib.load raised on
\* the way, which leaves what was loaded and no scaler
startup_event(files, completes) ==
    /\ debt_pc = "idle"
    /\ models' = models \cup files
    /\ scaler' = (scaler \/ (completes /\ "scaler" \in files))
    /\ UNCHANGED <<debt_pc, debt_request, debt_response, answers, faults, features, launcher>>
    /\ UNCHANGED bank
    /\ UNCHANGED request

\* POST /analyze-debt
AnalyzeDebt(req, outs, raises) ==
    /\ debt_pc = "idle"
    /\ debt_pc' = "done"
    /\ debt_request' = req
    /\ debt_response' = analyze_debt(models, scaler, req, outs, raises)
    /\ UNCHANGED <<models, scaler, answers, faults, features, launcher>>
    /\ UNCHANGED bank
    /\ UNCHANGED request

\* the response of the debt analysis is sent
DebtRespond ==
    /\ debt_pc = "done"
    /\ debt_pc' = "idle"
    /\ debt_request' = EmptyDict
    /\ debt_response' = EmptyDict
    /\ UNCHANGED <<models, scaler, answers, faults, features, launcher>>
    /\ UNCHANGED bank
    /\ UNCHANGED request

DebtNext ==
    \/ \E files \in SUBSET DebtFiles, completes \in BOOLEAN : startup_event(files, completes)
    \/ \E req \in DebtRequests, risk \in RiskOutputs, capacity \in CapacityOutputs,
          health \in ClassOutputs, cluster \in ClassOutputs,
          similarity \in SimilarityOutputs, raises \in BOOLEAN :
            AnalyzeDebt(req, [risk |-> risk, capacity |-> capacity, health |-> health,
                              cluster |-> cluster, similarity |-> similarity], raises)
    \/ DebtRespond

DebtSpec == Init /\ [][DebtNext]_vars

\* ---------------------------------------------------------------------
\* The prediction aggregator and the confidence score as functions of the
\* predictors' answers
\* ---------------------------------------------------------------------

\* the first n predictors of the load order
FirstModels(n) == {ModelOrder[i] : i \in 1..n}

\* a bank load_goal_models leaves with its first n predictors, and the
\* answers of the predictors it holds; the feasibility regressor may also
\* answer exactly 0, and an allocation regressor a number that is not a
\* whole point
ConfidenceInit ==
    /\ \E n \in 0..Len(ModelOrder) :
        /\ goal_models = FirstModels(n)
        /\ goal_scaler = (n = Len(ModelOrder))
        /\ goal_label_encoders = (n = Len(ModelOrder))
        /\ goal_tfidf_vectorizers = (n = Len(ModelOrder))
        /\ goal_svd_transformers = FALSE
        /\ \E f \in OutputsOf(FirstModels(n), "none", "feasibility", ScoreOutputs \cup {0}),
              p \in OutputsOf(FirstModels(n), "none", "priority", ScoreOutputs),
              t \in OutputsOf(FirstModels(n), "none", "timeline", TimelineOutputs),
              e \in OutputsOf(FirstModels(n), "none", "allocation_emergency", AllocOutputs \cup FineAllocOutputs),
              s \in OutputsOf(FirstModels(n), "none", "allocation_short", AllocOutputs \cup FineAllocOutputs),
              m \in OutputsOf(FirstModels(n), "none", "allocation_medium", AllocOutputs \cup FineAllocOutputs),
              l \in OutputsOf(FirstModels(n), "none", "allocation_long", AllocOutputs \cup FineAllocOutputs) :
                answers = [feasibility |-> f, priority |-> p, timeline |-> t,
                           allocation_emergency |-> e, allocation_short |-> s,
                           allocation_medium |-> m, allocation_long |-> l]
    /\ pc = "received"
    /\ body = Form(<<>>, <<>>, <<>>, <<>>, <<>>, <<>>, <<>>, <<>>)
    /\ data = GoalBasedPlanningRequest(body)
    /\ goals = ExtractGoals(data)
    /\ user_profile = EmptyDict
    /\ raised = "none"
    /\ ml_predictions = EmptyDict
    /\ failed = "none"
    /\ analysis = EmptyDict
    /\ status = 0
    /\ models = {}
    /\ scaler = FALSE
    /\ debt_pc = "idle"
    /\ debt_request = EmptyDict
    /\ debt_response = EmptyDict
    /\ faults = EmptyDict
    /\ features = EmptyDict
    /\ start_pc = "shell"
    /\ installed = TRUE
    /\ models_dir = None
    /\ server_started = FALSE
    /\ success = "None"

\* get_ml_goal_predictions on the fixed answers
AggregatePredictions ==
    /\ pc = "received"
    /\ GetPredictions(answers, "none")

\* the rest of analyze_goal_data, calculate_ml_confidence_score included
ScoreConfidence ==
    /\ pc = "predicted"
    /\ analyze_goal_based_planning("none")
    /\ UNCHANGED <<body, data, user_profile>>
    /\ UNCHANGED bank
    /\ UNCHANGED debt
    /\ UNCHANGED <<answers, faults, features, launcher>>

ConfidenceNext == AggregatePredictions \/ ScoreConfidence

ConfidenceSpec == ConfidenceInit /\ [][ConfidenceNext]_vars

\* ---------------------------------------------------------------------
\* Feature encoding
\* ---------------------------------------------------------------------

\* the width of a text slice when no reducer tells another
DefaultComponents == 10

\* a loaded reducer has between DefaultComponents - MaxComponentGap and
\* DefaultComponents components
MaxComponentGap == 1

\* a label encoder answers a code in 0..MaxLabelCode
MaxLabelCode == 1

\* a float of the feature list, as the fraction num / den
Float(num) == <<num, 1>>

\* a component a reducer computes
Component == <<1, 2>>

\* numpy.array(list): a flat array of len(list) elements
np_array(list) == [raises |-> FALSE, shape |-> <<Len(list)>>, data |-> list]

\* the value the fitted scaler gives for v, (v - mean) / scale
Standardized(v) == v \o <<"standardized">>

\* StandardScaler.transform([features]): one row of standardized values, a
\* two-dimensional array
scaler_transform(list) ==
    [raises |-> FALSE, shape |-> <<1, Len(list)>>,
     data |-> [i \in 1..Len(list) |-> Standardized(list[i])]]

\* the exception leaves prepare_ml_features
Raises == [raises |-> TRUE, shape |-> <<>>, data |-> <<>>]

\* the nine base numerical features
BaseFeatures(profile) ==
    <<Float(profile.age), Float(profile.monthly_income), Float(profile.expenses),
      Float(profile.savings), Float(profile.emergency_fund),
      Float(profile.debt_amount), Float(profile.monthly_emi),
      IF profile.has_loans THEN Float(1) ELSE Float(0),
      IF profile.invests THEN Float(1) ELSE Float(0)>>

\* the four derived ratios
RatioFeatures(profile) ==
    LET income == profile.monthly_income
    IN  IF income > 0
        THEN <<<<profile.debt_amount, income>>, <<profile.savings, income>>,
               <<profile.expenses, income>>, <<profile.emergency_fund, income>>>>
        ELSE <<Float(0), Float(0), Float(0), Float(0)>>

\* the categorical stage: labels[i] is None when the i-th lookup raises, and
\* the code otherwise.  The codes appended before the lookup that raises
\* stay in the list, and the except branch extends it by the three defaults
CategoricalFeatures(labels) ==
    IF ~goal_label_encoders THEN <<>>
    ELSE LET failing == {i \in 1..3 : labels[i] = None}
             first == IF failing = {} THEN 4
                      ELSE CHOOSE i \in failing : \A j \in failing : i <= j
             appended == [i \in 1..(first - 1) |-> Float(labels[i][1])]
         IN  IF failing = {} THEN appended
             ELSE appended \o <<Float(1), Float(0), Float(1)>>

\* the slice of one text field: the reducer's components, or zeros when the
\* reducer is missing or raises, as many as the reducer has components and
\* DefaultComponents when the reducer is missing
TextSlice(outcome, n_components) ==
    IF goal_svd_transformers /\ outcome = "ok"
    THEN Repeat(Component, n_components)
    ELSE Repeat(Float(0), IF goal_svd_transformers /\ outcome # "missing"
                          THEN n_components ELSE DefaultComponents)

\* the text stage; when a vectorizer raises, the except branch extends the
\* list by twenty zeros
TextFeatures(f) ==
    IF ~goal_tfidf_vectorizers THEN <<>>
    ELSE IF f.tfidf THEN Repeat(Float(0), 20)
    ELSE TextSlice(f.svd[1], f.n_components[1]) \o TextSlice(f.svd[2], f.n_components[2])

\* the list of features before scaling
UnscaledFeatures(profile, f) ==
    BaseFeatures(profile) \o RatioFeatures(profile) \o CategoricalFeatures(f.labels) \o TextFeatures(f)

\* prepare_ml_features(user_profile), the optional stages doing f
prepare_ml_features(profile, f) ==
    IF goal_scaler
    THEN IF f.scaler THEN Raises ELSE scaler_transform(UnscaledFeatures(profile, f))
    ELSE np_array(UnscaledFeatures(profile, f))

\* [features], the argument of every model.predict call
PredictArgument(array) == [shape |-> <<1>> \o array.shape, data |-> array.data]

\* what the optional stages may do, for the stages that are loaded: each
\* label lookup raises or answers a code, a vectorizer raises or not, each
\* reducer is missing from the dict, raises or answers, and the scaler
\* raises or not.  A reducer that is not reached does not raise
Faults ==
    {f \in [labels : IF goal_label_encoders
                     THEN [1..3 -> {None} \cup {Some(c) : c \in 0..MaxLabelCode}]
                     ELSE {<<None, None, None>>},
            tfidf : IF goal_tfidf_vectorizers THEN BOOLEAN ELSE {FALSE},
            svd : IF goal_svd_transformers
                  THEN [1..2 -> {"ok", "raises", "missing"}]
                  ELSE {<<"missing", "missing">>},
            n_components : IF goal_svd_transformers
                           THEN [1..2 -> (DefaultComponents - MaxComponentGap)..DefaultComponents]
                           ELSE {<<DefaultComponents, DefaultComponents>>},
            scaler : IF goal_scaler THEN BOOLEAN ELSE {FALSE}] :
        /\ f.tfidf => \A i \in 1..2 : f.svd[i] # "raises"
        /\ \A i \in 1..2 : f.svd[i] = "missing" => f.n_components[i] = DefaultComponents}

\* analyze_goal_data has built the user profile of a valid request, under a
\* bank that load_goal_models leaves and that holds a model
FeatureInit ==
    /\ \E n \in 1..Len(ModelOrder), k \in 0..3, svd \in BOOLEAN :
        /\ k > 0 => n = Len(ModelOrder)
        /\ svd => k = 3
        /\ goal_models = FirstModels(n)
        /\ goal_scaler = (k >= 1)
        /\ goal_label_encoders = (k >= 2)
        /\ goal_tfidf_vectorizers = (k >= 3)
        /\ goal_svd_transformers = svd
    /\ \E posted \in {b \in Bodies : Validates(b)} :
        /\ body = posted
        /\ data = GoalBasedPlanningRequest(posted)
        /\ goals = ExtractGoals(GoalBasedPlanningRequest(posted))
        /\ user_profile = create_user_profile_for_ml(GoalBasedPlanningRequest(posted), ExtractGoals(GoalBasedPlanningRequest(posted)))
    /\ pc = "profiled"
    /\ raised = "none"
    /\ ml_predictions = EmptyDict
    /\ failed = "none"
    /\ analysis = EmptyDict
    /\ status = 0
    /\ models = {}
    /\ scaler = FALSE
    /\ debt_pc = "idle"
    /\ debt_request = EmptyDict
    /\ debt_response = EmptyDict
    /\ answers = EmptyDict
    /\ faults = EmptyDict
    /\ features = EmptyDict
    /\ start_pc = "shell"
    /\ installed = TRUE
    /\ models_dir = None
    /\ server_started = FALSE
    /\ success = "None"

\* features = prepare_ml_features(user_profile) in get_ml_goal_predictions
PrepareFeatures(f) ==
    /\ pc = "profiled"
    /\ goal_models # {}
    /\ pc' = "encoded"
    /\ faults' = f
    /\ features' = prepare_ml_features(user_profile, f)
    /\ UNCHANGED <<body, data, user_profile, raised, goals, ml_predictions, failed, analysis, status>>
    /\ UNCHANGED bank
    /\ UNCHANGED debt
    /\ UNCHANGED <<answers, launcher>>

\* the call, for everything the optional stages may do
FeatureNext ==
    /\ pc = "profiled"
    /\ \E f \in Faults : PrepareFeatures(f)

FeatureSpec == FeatureInit /\ [][FeatureNext]_vars

\* ---------------------------------------------------------------------
\* The startup script (start_backend.py)
\* ---------------------------------------------------------------------

\* `not v` for a Python value v among True, False and None
PyNot(v) == v \in {"False", "None"}

required_models ==
    {"risk_model.joblib", "debt_capacity_model.joblib", "financial_health_model.joblib",
     "clustering_model.joblib", "scaler.joblib"}

required_goal_models ==
    <<"goal_feasibility_model.joblib", "goal_priority_model.joblib",
      "goal_timeline_classifier.joblib", "goal_allocation_emergency_model.joblib",
      "goal_allocation_short_model.joblib", "goal_allocation_medium_model.joblib",
      "goal_allocation_long_model.joblib", "goal_scaler.joblib",
      "goal_label_encoders.joblib", "goal_tfidf_vectorizers.joblib">>

\* check_requirements: the imports succeed or ImportError is caught
check_requirements(packages) == IF packages THEN "True" ELSE "False"

\* check_models: False without the directory or with a missing file; the
\* function ends there, so with every file present it returns None
check_models(dir) ==
    IF dir = None THEN "False"
    ELSE LET missing_models == {m \in required_models : m \notin dir[1]}
         IN  IF missing_models # {} THEN "False" ELSE "None"

\* check_goal_models
check_goal_models(dir) ==
    IF dir = None THEN "False"
    ELSE LET missing_goal_models ==
                 {i \in 1..Len(required_goal_models) : required_goal_models[i] \notin dir[1]}
         IN  IF missing_goal_models # {} THEN "False" ELSE "True"

\* main: what it returns, and whether it called start_server
main(packages, dir) ==
    IF PyNot(check_requirements(packages)) THEN [returns |-> "False", started |-> FALSE]
    ELSE IF PyNot(check_models(dir)) THEN [returns |-> "False", started |-> FALSE]
    ELSE IF PyNot(check_goal_models(dir)) THEN [returns |-> "False", started |-> FALSE]
    ELSE [returns |-> "True", started |-> TRUE]

\* the script is about to run: the packages are installed or not, and
\* backend/models is missing or holds some of the debt files and the goal
\* files written so far
StartInit ==
    /\ goal_models = {}
    /\ goal_scaler = FALSE
    /\ goal_label_encoders = FALSE
    /\ goal_tfidf_vectorizers = FALSE
    /\ goal_svd_transformers = FALSE
    /\ pc = "idle"
    /\ body = EmptyDict
    /\ data = EmptyDict
    /\ user_profile = EmptyDict
    /\ raised = "none"
    /\ goals = EmptyDict
    /\ ml_predictions = EmptyDict
    /\ failed = "none"
    /\ analysis = EmptyDict
    /\ status = 0
    /\ models = {}
    /\ scaler = FALSE
    /\ debt_pc = "idle"
    /\ debt_request = EmptyDict
    /\ debt_response = EmptyDict
    /\ answers = EmptyDict
    /\ faults = EmptyDict
    /\ features = EmptyDict
    /\ start_pc = "shell"
    /\ installed \in BOOLEAN
    /\ models_dir \in {None} \cup
            {Some(d \cup {required_goal_models[i] : i \in 1..n}) :
                d \in SUBSET required_models, n \in 0..Len(required_goal_models)}
    /\ server_started = FALSE
    /\ success = "None"

\* success = main()
RunMain ==
    /\ start_pc = "shell"
    /\ start_pc' = "returned"
    /\ success' = main(installed, models_dir).returns
    /\ server_started' = main(installed, models_dir).started
    /\ UNCHANGED <<installed, models_dir>>
    /\ UNCHANGED bank
    /\ UNCHANGED request
    /\ UNCHANGED debt
    /\ UNCHANGED <<answers, faults, features>>

\* sys.exit(0 if success else 1)
Exit ==
    /\ start_pc = "returned"
    /\ start_pc' = "exited"
    /\ UNCHANGED <<installed, models_dir, server_started, success>>
    /\ UNCHANGED bank
    /\ UNCHANGED request
    /\ UNCHANGED debt
    /\ UNCHANGED <<answers, faults, features>>

StartNext == RunMain \/ Exit

StartSpec == StartInit /\ [][StartNext]_vars

\* ---------------------------------------------------------------------
\* Properties
\* ---------------------------------------------------------------------

Done == pc = "done"

Plan == analysis.investmentAllocation

PlanSum == Plan.emergencyFund + Plan.shortTerm + Plan.mediumTerm + Plan.longTerm

\* the fixed default prediction set, as the specification words it
FixedFallbackSet ==
    [feasibility_score |-> 6500, priority_score |-> 7000,
     timeline_category |-> "mediumTerm",
     allocation_emergency |-> 2500, allocation_short |-> 2000,
     allocation_medium |-> 2500, allocation_long |-> 3000]

\* C1: whatever bank is loaded and whatever the allocation models answer,
\* the four percentages of the returned AllocationPlan sum to exactly 100.
C1_PlanSumsTo100 == Done => PlanSum = Pt(100)

\* a plan built with only some allocation models loaded, one of them
\* answering above the band
C1_Witness ==
    /\ Done
    /\ raised = "none"
    /\ "allocation_emergency" \in goal_models
    /\ "allocation_long" \notin goal_models
    /\ Plan.emergencyFund = Pt(50)
    /\ Plan.longTerm # Pt(25)

\* C2: with an empty model bank the prediction set is exactly the fixed
\* fallback set and the AllocationPlan is exactly 25/20/25/30, for every
\* request.
C2_EmptyBankFallback ==
    (goal_models = {} /\ pc \in {"predicted", "done"}) =>
        /\ ml_predictions = FixedFallbackSet
        /\ Done => Plan = [emergencyFund |-> Pt(25), shortTerm |-> Pt(20),
                           mediumTerm |-> Pt(25), longTerm |-> Pt(30)]

C2_Witness ==
    /\ Done
    /\ goal_models = {}
    /\ DOMAIN goals = {"shortTerm"}
    /\ Plan.shortTerm = Pt(20)

\* C3: when feature encoding or a model's predict call raises, the request
\* goes on with the whole fixed fallback set; nothing predicted before the
\* failure is kept.
C3_RaiseGivesWholeFallback ==
    (raised # "none") =>
        /\ pc \in {"predicted", "done"}
        /\ ml_predictions = FixedFallbackSet
        /\ Done => analysis.mlInsights = FixedFallbackSet

\* the last model raised, after the six before it had answered
C3_Witness ==
    /\ Done
    /\ goal_models = ModelKeys
    /\ raised = "allocation_long"
    /\ analysis.mlInsights = FixedFallbackSet

InBand(x, lo, hi) == lo <= x /\ x <= hi

\* C4: every category's feasibility score, priority score and normalized
\* priority score lie within [0,100], whatever the models answer.
C4_ScoresWithin0To100 ==
    Done => \A c \in DOMAIN analysis.goals :
                /\ InBand(analysis.feasibilityScores[c], 0, Pt(100))
                /\ InBand(analysis.priorities[c].score, 0, Pt(100))
                /\ InBand(analysis.priorities[c].normalizedScore, 0, Pt(100))

\* C5: the confidence score lies within [0,1] for every prediction set.
C5_ConfidenceWithin0To1 == Done => InBand(analysis.confidenceScore, 0, 10000)

\* C6: each of the four percentages of the returned AllocationPlan is
\* non-negative, whatever the allocation models answer.
C6_PlanNonNegative ==
    Done => /\ Plan.emergencyFund >= 0
            /\ Plan.shortTerm >= 0
            /\ Plan.mediumTerm >= 0
            /\ Plan.longTerm >= 0

Emergency == <<"e", "m", "e", "r", "g", "e", "n", "c", "y">>

\* some goal text, taken alone, contains 'emergency' in some letter case
SomeGoalMentionsEmergency ==
    \E c \in DOMAIN analysis.goals : \E i \in 1..Len(analysis.goals[c]) :
        Contains(Lower(analysis.goals[c][i]), Emergency)

Recs == analysis.recommendations

RecsOfType(type) == {i \in 1..Len(Recs) : Recs[i].type = type}

\* C7: the recommendations hold exactly one missing_emergency_fund record
\* (priority high, confidence 0.9) when no goal text contains 'emergency' in
\* any letter case, the empty GoalSet included, and none when one does.
C7_EmergencyFundRule ==
    Done => IF SomeGoalMentionsEmergency
            THEN RecsOfType("missing_emergency_fund") = {}
            ELSE /\ Cardinality(RecsOfType("missing_emergency_fund")) = 1
                 /\ \A i \in RecsOfType("missing_emergency_fund") :
                        Recs[i].priority = "high" /\ Recs[i].confidence = 9000

\* a goal that spells EMERGENCY in capitals silences the rule
C7_Witness ==
    /\ Done
    /\ DOMAIN analysis.goals = {"longTerm"}
    /\ SomeGoalMentionsEmergency
    /\ ~(\E c \in DOMAIN analysis.goals : \E i \in 1..Len(analysis.goals[c]) :
            Contains(analysis.goals[c][i], Emergency))
    /\ RecsOfType("missing_emergency_fund") = {}
    /\ Recs # <<>>

\* the list as the rules emitted it, before the sort
Emitted ==
    EmittedRecommendations(analysis.goals, analysis.priorities,
                           analysis.feasibilityScores, analysis.mlInsights)

\* where the list emitted holds the record r
PositionIn(emitted, r) == CHOOSE k \in 1..Len(emitted) : emitted[k] = r

RankOf(r) == CASE r.priority = "high" -> 3 [] r.priority = "medium" -> 2 [] r.priority = "low" -> 1

\* C8: the returned list holds the emitted records ordered by priority rank
\* descending, then by confidence descending, and records equal in both
\* keep the order in which the rules emitted them.
C8_StableOrdering ==
    Done =>
        \A emitted \in {Emitted} :
            /\ Len(Recs) = Len(emitted)
            /\ {Recs[i] : i \in 1..Len(Recs)} = {emitted[i] : i \in 1..Len(emitted)}
            /\ \A i, j \in 1..Len(Recs) :
                i < j =>
                    \/ RankOf(Recs[i]) > RankOf(Recs[j])
                    \/ /\ RankOf(Recs[i]) = RankOf(Recs[j])
                       /\ Recs[i].confidence > Recs[j].confidence
                    \/ /\ RankOf(Recs[i]) = RankOf(Recs[j])
                       /\ Recs[i].confidence = Recs[j].confidence
                       /\ PositionIn(emitted, Recs[i]) < PositionIn(emitted, Recs[j])

\* a list where a higher rank precedes a higher confidence, two records tie,
\* and the sort moved a record ahead of one emitted before it
C8_Witness ==
    /\ Done
    /\ \E i, j \in 1..Len(Recs) :
        /\ i < j
        /\ RankOf(Recs[i]) > RankOf(Recs[j])
        /\ Recs[i].confidence < Recs[j].confidence
    /\ \E i, j \in 1..Len(Recs) :
        /\ i < j
        /\ RankOf(Recs[i]) = RankOf(Recs[j])
        /\ Recs[i].confidence = Recs[j].confidence
    /\ \E emitted \in {Emitted} : \E i, j \in 1..Len(Recs) :
        /\ i < j
        /\ PositionIn(emitted, Recs[i]) > PositionIn(emitted, Recs[j])

\* the tables of the Category Scorer, as the specification gives them
SpecMultiplierTenths(c) ==
    CASE c = "retirement" -> 12 [] c = "childrenEducation" -> 11
      [] c = "houseCar" -> 10 [] c = "business" -> 9
      [] c = "travelLifestyle" -> 8 [] c = "shortTerm" -> 7
      [] c = "mediumTerm" -> 9 [] c = "longTerm" -> 11
      [] OTHER -> 10

SpecAdjustment(c) ==
    CASE c = "retirement" -> 5 [] c = "shortTerm" -> 10 [] c = "houseCar" -> -5
      [] c = "business" -> -10 [] c = "childrenEducation" -> 5
      [] c = "travelLifestyle" -> 0 [] c = "longTerm" -> 8
      [] OTHER -> 0

\* the characters of all goals of category c
TotalLength(c) ==
    LET g == analysis.goals[c]
        Upto[n \in 0..Len(g)] == IF n = 0 THEN 0 ELSE Upto[n - 1] + Len(g[n])
    IN  Upto[Len(g)]

\* average goal length of category c > limit
AverageLengthExceeds(c, limit) == TotalLength(c) > limit * Len(analysis.goals[c])

SpecDetailBonus(c) ==
    IF AverageLengthExceeds(c, 100) THEN 15
    ELSE IF AverageLengthExceeds(c, 50) THEN 8
    ELSE 0

\* C10: for every category with goals, the feasibility score is
\* clamp(feasibility_score + categoryAdjustment + detailBonus, 0, 100), the
\* normalizedScore is min(100, priority_score x categoryMultiplier) and
\* 'score' is the unadjusted priority_score; with no models loaded, the goals
\* {shortTerm: ['Buy a laptop']} get feasibility 75 and normalizedScore 49.
C10_CategoryScores ==
    Done =>
        /\ DOMAIN analysis.feasibilityScores = DOMAIN analysis.goals
        /\ DOMAIN analysis.priorities = DOMAIN analysis.goals
        /\ \A c \in DOMAIN analysis.goals :
            /\ "feasibility_score" \in DOMAIN ml_predictions =>
                analysis.feasibilityScores[c] =
                    Max2(0, Min2(100 * 100,
                                 ml_predictions.feasibility_score
                                 + 100 * (SpecAdjustment(c) + SpecDetailBonus(c))))
            /\ "priority_score" \in DOMAIN ml_predictions =>
                /\ 10 * analysis.priorities[c].normalizedScore =
                        Min2(10 * 100 * 100, ml_predictions.priority_score * SpecMultiplierTenths(c))
                /\ analysis.priorities[c].score = ml_predictions.priority_score
        /\ (goal_models = {} /\ analysis.goals = [c \in {"shortTerm"} |-> <<BuyALaptop>>]) =>
            /\ analysis.feasibilityScores["shortTerm"] = 7500
            /\ analysis.priorities["shortTerm"].normalizedScore = 4900

\* loaded models, a category whose two goals average above 50 characters
\* and total above 100, and one whose goal is longer than 100
C10_Witness ==
    /\ Done
    /\ raised = "none"
    /\ {"feasibility", "priority"} \subseteq goal_models
    /\ {"business", "travelLifestyle"} \subseteq DOMAIN analysis.goals
    /\ SpecDetailBonus("business") = 15
    /\ SpecDetailBonus("travelLifestyle") = 8
    /\ TotalLength("travelLifestyle") > 100
    /\ analysis.feasibilityScores["travelLifestyle"] = ml_predictions.feasibility_score + Pt(8)
    /\ analysis.priorities["business"].normalizedScore < analysis.priorities["business"].score

\* a text of commas and whitespace only
OnlySeparators(text) == \A i \in 1..Len(text) : text[i] \in Whitespace \cup {","}

\* a goal string with no leading and no trailing whitespace
Trimmed(goal) == goal # <<>> /\ goal[1] \notin Whitespace /\ goal[Len(goal)] \notin Whitespace

\* C11: the goals dict built from the eight text fields never maps a
\* category to an empty list and never holds an empty or untrimmed goal; a
\* field of commas and whitespace only gives no category; the priorities and
\* the feasibility scores have exactly the categories of the goals as keys.
C11_GoalSetWellFormed ==
    pc \in {"received", "predicted", "done"} =>
        /\ \A c \in DOMAIN goals :
            /\ goals[c] # <<>>
            /\ \A i \in 1..Len(goals[c]) : Trimmed(goals[c][i])
        /\ \A c \in Categories : OnlySeparators(data[FieldOf[c]]) => c \notin DOMAIN goals
        /\ Done =>
            /\ DOMAIN analysis.priorities = DOMAIN goals
            /\ DOMAIN analysis.feasibilityScores = DOMAIN goals

\* a field of commas and blanks beside a field whose second goal was typed
\* with a leading blank
C11_Witness ==
    /\ Done
    /\ data.mediumTermGoals = OnlyCommas
    /\ data.shortTermGoals = EmerGency
    /\ DOMAIN goals = {"shortTerm"}
    /\ Len(goals.shortTerm) = 2
    /\ DOMAIN analysis.priorities = {"shortTerm"}

\* C12: a call of analyze_goal_data leaves goal_models, goal_scaler,
\* goal_label_encoders, goal_tfidf_vectorizers and goal_svd_transformers as
\* they were, on the ML path, on the fallback path and when a stage raises:
\* every step of a request keeps the bank.
C12_AnalysisLeavesBankUnchanged ==
    [][(pc # "idle" \/ pc' # "idle") => bank' = bank]_vars

\* a request served from a complete bank whose allocation stage raised
C12_Witness ==
    /\ pc = "failed"
    /\ status = 500
    /\ failed = "allocation"
    /\ goal_models = ModelKeys
    /\ goal_scaler
    /\ goal_label_encoders

\* C13: after any sequence of load_goal_models invocations, each of which
\* may fail at any artifact, every analysis observes a bank that is either
\* entirely empty or complete: the seven predictors with the scaler, the
\* label encoders and the vectorizers.
C13_BankEmptyOrComplete ==
    pc \in {"received", "predicted", "done", "failed"} =>
        \/ /\ goal_models = {}
           /\ ~goal_scaler
           /\ ~goal_label_encoders
           /\ ~goal_tfidf_vectorizers
           /\ ~goal_svd_transformers
        \/ /\ goal_models = ModelKeys
           /\ goal_scaler
           /\ goal_label_encoders
           /\ goal_tfidf_vectorizers

\* C14: when a predictor is not loaded while others are, no error is
\* propagated and the value used downstream for its metric is the one of the
\* fixed default set: feasibility 65, priority 70, timeline mediumTerm,
\* allocation emergency 25, short 20, medium 25, long 30.
C14_MissingPredictorTakesDefault ==
    (pc \in {"done", "failed"} /\ raised = "none" /\ failed = "none" /\ goal_models # {}) =>
        /\ Done
        /\ "feasibility" \notin goal_models =>
                analysis.confidenceScore \in {Hundredth(FixedFallbackSet.feasibility_score),
                                              (Hundredth(FixedFallbackSet.feasibility_score) * 8) \div 10}
        /\ "priority" \notin goal_models =>
                \A c \in DOMAIN analysis.priorities :
                    analysis.priorities[c].score = FixedFallbackSet.priority_score
        /\ "timeline" \notin goal_models =>
                Get(analysis.mlInsights, "timeline_category", FixedFallbackSet.timeline_category)
                    = FixedFallbackSet.timeline_category
        /\ "allocation_emergency" \notin goal_models =>
                Plan.emergencyFund = FixedFallbackSet.allocation_emergency
        /\ "allocation_short" \notin goal_models =>
                Plan.shortTerm = FixedFallbackSet.allocation_short
        /\ "allocation_medium" \notin goal_models =>
                Plan.mediumTerm = FixedFallbackSet.allocation_medium
        /\ "allocation_long" \notin goal_models =>
                Plan.longTerm = FixedFallbackSet.allocation_long

\* C15: when one model rejects the feature vector while the others accept
\* it, get_ml_goal_predictions skips that prediction alone: its slot takes
\* the fallback default, the slots of the models that answered hold what
\* they answered, and the analysis goes on.
C15_RejectedPredictionSkippedAlone ==
    [][(pc = "received" /\ raised' \in ModelKeys) =>
        /\ pc' = "predicted"
        /\ \E f \in ScoreOutputs, p \in ScoreOutputs, t \in TimelineOutputs,
              e \in AllocOutputs, s \in AllocOutputs, m \in AllocOutputs :
              LET outs == [feasibility |-> f, priority |-> p, timeline |-> t,
                           allocation_emergency |-> e, allocation_short |-> s,
                           allocation_medium |-> m]
              IN  \A i \in 1..(ConsultedBefore(raised') + 1) :
                      ModelOrder[i] \in goal_models =>
                          /\ PredictionKey[ModelOrder[i]] \in DOMAIN ml_predictions'
                          /\ ml_predictions'[PredictionKey[ModelOrder[i]]] =
                                IF ModelOrder[i] = raised'
                                THEN FixedFallbackSet[PredictionKey[ModelOrder[i]]]
                                ELSE RecordedValue(ModelOrder[i], outs[ModelOrder[i]])
       ]_vars

\* the keys of the dict analyze_goal_data returns
ResultKeys ==
    {"goals", "priorities", "timelineAnalysis", "feasibilityScores",
     "recommendations", "investmentAllocation", "confidenceScore", "mlInsights"}

InvalidAmount(v) == IF "number" \in DOMAIN v THEN v.number < 0 ELSE TRUE

\* the posted body has a negative or non-numeric financial field
HasInvalidFinancialField == \E f \in FinancialFields \cap DOMAIN body : InvalidAmount(body[f])

\* C17: a request whose profile has a negative or non-numeric financial
\* field is rejected: it ends in an error and without a result, not analysed
\* with the value accepted, coerced or replaced by a default.
C17_InvalidProfileRejected ==
    (pc \in {"done", "failed", "rejected"} /\ HasInvalidFinancialField) =>
        /\ status \in {422, 500}
        /\ analysis = EmptyDict

\* C18: when the debt model bank and its scaler are loaded and every
\* predictor returns a value, analyze_debt completes with a success response
\* whose confidence_score is a number in (0,1], not with HTTP 500.
C18_DebtAnalysisSucceeds ==
    (/\ debt_pc = "done"
     /\ DebtPredictors \subseteq models
     /\ scaler
     /\ debt_response.detail # "ValueError") =>
        /\ debt_response.status = 200
        /\ debt_response.confidence_score > 0
        /\ debt_response.confidence_score <= 10000

\* the four allocation values as clamped, before the difference to 100 is
\* added to allocation_long; a predictor that is not loaded counts as 25
ClampedAllocations ==
    [i \in 1..Len(AllocationKeys) |->
        IF AllocationKeys[i] \in goal_models
        THEN ClampAllocation(answers[AllocationKeys[i]])
        ELSE Pt(25)]

\* the four allocation values of the prediction set, allocation_long
\* carrying the redistributed difference
RedistributedAllocations ==
    [i \in 1..Len(AllocationKeys) |-> Get(ml_predictions, AllocationKeys[i], Pt(25))]

\* the confidence for a base of feasibility_score / 100, with and without
\* the 0.8 penalty
ConfidenceFor(allocations) ==
    LET base == Get(ml_predictions, "feasibility_score", 65 * 100)
    IN  Min2(10000, IF SeqMax(allocations) > 60 * 100 \/ SeqMin(allocations) < 10 * 100
                    THEN (base * 8) \div 10
                    ELSE base)

\* C19 as stated: the 0.8 penalty applies exactly when max > 60 or min < 10
\* holds for the four allocation values as clamped to [5,50] before any
\* redistribution into longTerm, so four clamped predictions of 50 incur none.
C19_PenaltyOnClampedValues ==
    Done => analysis.confidenceScore = ConfidenceFor(ClampedAllocations)

\* C19 as amended: the 0.8 penalty applies exactly when max > 60 or min < 10
\* holds for the four allocation values of the prediction set, in which
\* allocation_long already carries the redistributed difference; four
\* clamped predictions of 50 leave allocation_long at -50 and incur it.
C19_PenaltyOnRedistributedValues ==
    Done =>
        /\ analysis.confidenceScore = ConfidenceFor(RedistributedAllocations)
        /\ (\A i \in 1..Len(AllocationKeys) : ClampedAllocations[i] = 50 * 100) =>
                /\ ml_predictions.allocation_long = -50 * 100
                /\ analysis.confidenceScore = Min2(10000, (ml_predictions.feasibility_score * 8) \div 10)

\* the four allocation regressors answered above the band and the
\* feasibility regressor 75
C19_Witness ==
    /\ Done
    /\ goal_models = ModelKeys
    /\ \A i \in 1..Len(AllocationKeys) : ClampedAllocations[i] = 50 * 100
    /\ ml_predictions.feasibility_score = 75 * 100
    /\ analysis.confidenceScore = 6000

\* the positions of the records of a type for a category
RecsFor(type, c) == {i \in RecsOfType(type) : Recs[i].category = c}

\* C20: for every category of the priorities, a high_priority_feasible
\* record (priority high) is emitted exactly when normalizedScore > 60 and
\* the category's feasibility > 70, a review_adjust record (priority medium)
\* exactly when normalizedScore > 60 and feasibility < 50; both carry the
\* predictions' feasibility_score / 100 as confidence, and a category with
\* feasibility in [50,70] or normalizedScore <= 60 gets neither.
C20_CategoryRules ==
    Done =>
        /\ \A c \in DOMAIN analysis.priorities :
            /\ Cardinality(RecsFor("high_priority_feasible", c)) =
                    IF analysis.priorities[c].normalizedScore > 60 * 100
                       /\ analysis.feasibilityScores[c] > 70 * 100
                    THEN 1 ELSE 0
            /\ Cardinality(RecsFor("review_adjust", c)) =
                    IF analysis.priorities[c].normalizedScore > 60 * 100
                       /\ analysis.feasibilityScores[c] < 50 * 100
                    THEN 1 ELSE 0
        /\ \A i \in RecsOfType("high_priority_feasible") :
            /\ Recs[i].category \in DOMAIN analysis.priorities
            /\ Recs[i].priority = "high"
            /\ Recs[i].confidence = ml_predictions.feasibility_score
        /\ \A i \in RecsOfType("review_adjust") :
            /\ Recs[i].category \in DOMAIN analysis.priorities
            /\ Recs[i].priority = "medium"
            /\ Recs[i].confidence = ml_predictions.feasibility_score

\* two categories of high priority: retirement, feasible at 80, gets the
\* record with the predictions' 0.75; houseCar, at exactly 70, gets none
C20_Witness ==
    /\ Done
    /\ DOMAIN analysis.priorities = {"retirement", "houseCar"}
    /\ ml_predictions.feasibility_score = 75 * 100
    /\ analysis.feasibilityScores["retirement"] = 80 * 100
    /\ analysis.feasibilityScores["houseCar"] = 70 * 100
    /\ analysis.priorities["houseCar"].normalizedScore = 75 * 100
    /\ \E i \in RecsFor("high_priority_feasible", "retirement") : Recs[i].confidence = 7500
    /\ RecsFor("high_priority_feasible", "houseCar") = {}
    /\ RecsFor("review_adjust", "houseCar") = {}

\* C21: whenever the prediction set has a feasibility_score key, whatever
\* its value, 0 included, exactly one ml_insights record is emitted, with
\* priority low and confidence 1.0; none is emitted only when the key is
\* absent.
C21_InsightsIffKeyPresent ==
    Done =>
        /\ Cardinality(RecsOfType("ml_insights")) =
                IF "feasibility_score" \in DOMAIN ml_predictions THEN 1 ELSE 0
        /\ \A i \in RecsOfType("ml_insights") :
                Recs[i].priority = "low" /\ Recs[i].confidence = 10000

\* C22: the returned list has no duplicates: no two records share the same
\* (type, category) pair, no category carries both a high_priority_feasible
\* and a review_adjust record, and focus_management, missing_emergency_fund
\* and ml_insights each appear at most once.
C22_NoDuplicateRecords ==
    Done =>
        \A recs \in {Recs} :
            /\ \A i \in 1..Len(recs), j \in 1..Len(recs) :
                    (recs[i].type = recs[j].type /\ recs[i].category = recs[j].category) => i = j
            /\ \A i \in 1..Len(recs), j \in 1..Len(recs) :
                    ~(/\ recs[i].type = "high_priority_feasible"
                      /\ recs[j].type = "review_adjust"
                      /\ recs[i].category = recs[j].category)
            /\ \A type \in {"focus_management", "missing_emergency_fund", "ml_insights"} :
                    Cardinality({i \in 1..Len(recs) : recs[i].type = type}) <= 1

\* six categories, several of them feasible at high priority, with the
\* three general records
C22_Witness ==
    /\ Done
    /\ Cardinality(DOMAIN goals) > 5
    /\ Cardinality(RecsOfType("high_priority_feasible")) >= 3
    /\ Cardinality(RecsOfType("focus_management")) = 1
    /\ Cardinality(RecsOfType("missing_emergency_fund")) = 1
    /\ Cardinality(RecsOfType("ml_insights")) = 1

\* the feature list has been encoded and returned
Encoded == pc = "encoded" /\ ~features.raises

\* the values of the returned array at positions from..to
FeatureSlice(from, to) == SubSeq(features.data, from, to)

\* the defaults of the categorical stage as the returned array holds them
DefaultCodes ==
    IF goal_scaler THEN <<Standardized(Float(1)), Standardized(Float(0)), Standardized(Float(1))>>
    ELSE <<Float(1), Float(0), Float(1)>>

\* C23: when the label encoders are loaded the categorical stage contributes
\* exactly three values whichever lookup fails, the defaults 1.0, 0.0, 1.0
\* on a failure, so that the vector is 36 wide when the text stage
\* contributes its default twenty values
C23_CategoricalStageGivesThree ==
    Encoded /\ goal_label_encoders =>
        /\ Len(features.data) = 13 + 3 + Len(TextFeatures(faults))
        /\ (\E i \in 1..3 : faults.labels[i] = None) => FeatureSlice(14, 16) = DefaultCodes
        /\ Len(TextFeatures(faults)) = 20 => Len(features.data) = 36

\* the width of the i-th text slice when its stage succeeds
SuccessWidth(i) ==
    IF goal_svd_transformers /\ faults.svd[i] # "missing"
    THEN faults.n_components[i] ELSE DefaultComponents

\* C24: prepare_ml_features never raises, and a stage that fails or is not
\* loaded contributes as many values as when it succeeds, three for the
\* categorical stage and the reducer's width for each text field
C24_NeverRaisesSameWidths ==
    pc = "encoded" =>
        /\ ~features.raises
        /\ Len(features.data) = 13 + 3 + SuccessWidth(1) + SuccessWidth(2)

\* C25: with the scaler loaded prepare_ml_features returns a flat vector of
\* as many elements as the unscaled list, so that predict([features]) gets
\* one row of that width, the shape it gets when no scaler is loaded
C25_ScaledVectorIsFlat ==
    Encoded /\ goal_scaler =>
        \A n \in {Len(UnscaledFeatures(user_profile, faults))} :
            /\ features.shape = <<n>>
            /\ PredictArgument(features).shape = <<1, n>>

\* sum(allocation.values()) for the returned plan
PlanTotal == FloatSum(<<Plan.emergencyFund, Plan.shortTerm, Plan.mediumTerm, Plan.longTerm>>)

\* the values the reconciliation starts from: the whole fallback set under
\* an empty bank, and otherwise the clamped answers, 25 for a model that is
\* not loaded
StartingAllocations ==
    IF goal_models = {}
    THEN [i \in 1..Len(AllocationKeys) |-> get_fallback_predictions[AllocationKeys[i]]]
    ELSE ClampedAllocations

\* C26: in the returned AllocationPlan emergencyFund, shortTerm and
\* mediumTerm are the answers of their models clamped to [5,50], or their
\* defaults, and so lie within [5,50]; longTerm carries the whole
\* difference between 100 and the sum of the four values, up to the
\* rounding of the float sums (twice the spacing of the floats around the
\* sum), and the plan totals 100
C26_OnlyLongTermAbsorbs ==
    Done =>
        \A start \in {StartingAllocations} :
            /\ Plan.emergencyFund = start[1] /\ InBand(Plan.emergencyFund, Pt(5), Pt(50))
            /\ Plan.shortTerm = start[2] /\ InBand(Plan.shortTerm, Pt(5), Pt(50))
            /\ Plan.mediumTerm = start[3] /\ InBand(Plan.mediumTerm, Pt(5), Pt(50))
            /\ PlanTotal = Pt(100)
            /\ Abs(Plan.longTerm - (start[4] + (Pt(100) - SumSeq(start))))
                    <= 2 * Spacing(SumSeq(start), 1)

\* the four models answer, three of them above the band, and longTerm
\* leaves the band to absorb the excess
C26_Witness ==
    /\ Done
    /\ goal_models = ModelKeys
    /\ Plan.emergencyFund = Pt(50)
    /\ Plan.shortTerm = Pt(50)
    /\ Plan.mediumTerm = Pt(50)
    /\ answers["allocation_long"] = Pt(30)
    /\ Plan.longTerm = Pt(-50)

\* the four allocation values of the prediction set, read as a plan
PredictedPlan ==
    [emergencyFund |-> Get(ml_predictions, "allocation_emergency", Pt(25)),
     shortTerm |-> Get(ml_predictions, "allocation_short", Pt(25)),
     mediumTerm |-> Get(ml_predictions, "allocation_medium", Pt(25)),
     longTerm |-> Get(ml_predictions, "allocation_long", Pt(25))]

\* a plan read as the allocation values of a prediction set
AsPredictions(plan) ==
    [allocation_emergency |-> plan.emergencyFund, allocation_short |-> plan.shortTerm,
     allocation_medium |-> plan.mediumTerm, allocation_long |-> plan.longTerm]

\* C27 as stated: on every prediction set get_ml_goal_predictions returns,
\* process_allocation_predictions finds the total equal to 100 and returns
\* the four allocation values unchanged, and applied to its own output it
\* changes nothing
C27_SecondPassIsNoOp ==
    Done =>
        /\ TotalAllocation(ml_predictions) = Pt(100)
        /\ Plan = PredictedPlan
        /\ process_allocation_predictions(AsPredictions(Plan)) = Plan

\* C27, amended: process_allocation_predictions returns emergencyFund,
\* shortTerm and mediumTerm of the prediction set unchanged; longTerm is
\* unchanged when the float total of the set is 100 and moves by the
\* rounding of the float sums otherwise; the plan it returns totals 100,
\* and applied to its own output it changes nothing
C27_SecondPassSettlesRounding ==
    Done =>
        /\ Plan.emergencyFund = PredictedPlan.emergencyFund
        /\ Plan.shortTerm = PredictedPlan.shortTerm
        /\ Plan.mediumTerm = PredictedPlan.mediumTerm
        /\ TotalAllocation(ml_predictions) = Pt(100) => Plan.longTerm = PredictedPlan.longTerm
        /\ Abs(Plan.longTerm - PredictedPlan.longTerm)
                <= 2 * Spacing(Plan.emergencyFund + Plan.shortTerm + Plan.mediumTerm, 1)
        /\ PlanTotal = Pt(100)
        /\ process_allocation_predictions(AsPredictions(Plan)) = Plan

\* the second pass found a total other than 100 and moved longTerm
C27_Witness ==
    /\ Done
    /\ raised = "none"
    /\ goal_models = ModelKeys
    /\ TotalAllocation(ml_predictions) # Pt(100)
    /\ Plan.longTerm # PredictedPlan.longTerm

Timelines == analysis.timelineAnalysis

\* how many times e occurs in the sequence s
Occurrences(s, e) == Cardinality({k \in 1..Len(s) : s[k] = e})

\* the bucket of a category: the fixed mapping, except that travelLifestyle
\* follows a prediction of shortTerm
ExpectedBucket(category) ==
    IF category = "travelLifestyle" /\ Get(ml_predictions, "timeline_category", "mediumTerm") = "shortTerm"
    THEN "shortTerm"
    ELSE CASE category \in {"shortTerm"} -> "shortTerm"
           [] category \in {"mediumTerm", "houseCar", "business", "travelLifestyle"} -> "mediumTerm"
           [] OTHER -> "longTerm"

\* C28: every goal of every category is placed once, tagged with its
\* category, in one of the buckets shortTerm, mediumTerm and longTerm: the
\* buckets hold as many entries as the GoalSet holds goals, 'immediate' is
\* empty, and the bucket of a category is the one of the fixed mapping,
\* except for travelLifestyle under a prediction of shortTerm
C28_EveryGoalInOneBucket ==
    Done =>
        \A tl \in {Timelines} :
            /\ DOMAIN tl = {"immediate", "shortTerm", "mediumTerm", "longTerm"}
            /\ tl.immediate = <<>>
            /\ Len(tl.shortTerm) + Len(tl.mediumTerm) + Len(tl.longTerm)
                    = SumSeq([i \in 1..Len(KeysOf(goals)) |-> Len(goals[KeysOf(goals)[i]])])
            /\ \A c \in DOMAIN goals : \A i \in 1..Len(goals[c]) :
                    \A b \in {"shortTerm", "mediumTerm", "longTerm"} :
                        Occurrences(tl[b], goals[c][i] \o <<" ", "(">> \o CategoryChars[c] \o <<")">>)
                            = IF b = ExpectedBucket(c) THEN Occurrences(goals[c], goals[c][i]) ELSE 0

\* the classifier answered shortTerm and the two travel goals, the same
\* text twice, moved to the shortTerm bucket, the other goals staying
C28_Witness ==
    /\ Done
    /\ raised = "none"
    /\ ml_predictions["timeline_category"] = "shortTerm"
    /\ "travelLifestyle" \in DOMAIN goals
    /\ Len(goals["travelLifestyle"]) = 2
    /\ Len(Timelines.shortTerm) = 2
    /\ Len(Timelines.mediumTerm) > 0
    /\ Len(Timelines.longTerm) > 0

\* C29: when the debt model bank or its scaler is not loaded, analyze_debt
\* ends with the 503 'Models not loaded' status and with no other error
\* status
C29_UnloadedDebtBankGives503 ==
    (debt_pc = "done" /\ (models = {} \/ ~scaler)) => debt_response.status = 503

\* every file check_models and check_goal_models ask for is present
AllArtifactsPresent ==
    /\ models_dir # None
    /\ \A files \in {models_dir[i] : i \in 1..Len(models_dir)} :
        /\ required_models \subseteq files
        /\ \A i \in 1..Len(required_goal_models) : required_goal_models[i] \in files

\* C30: when the packages are installed and the five debt model files and
\* the required goal model files are present, main starts the server; it
\* returns False without starting it only when one of the three checks
\* finds something missing
C30_MainStartsServer ==
    start_pc # "shell" =>
        /\ (installed /\ AllArtifactsPresent) => (server_started /\ success = "True")
        /\ (~server_started /\ success = "False") => (~installed \/ ~AllArtifactsPresent)

====
